---- MODULE Spec2Model ----
(***************************************************************************)
(* State-machine model of the transactional core of PPL2System:            *)
(*   - the inventory stock ledger   (internal/services/inventory)          *)
(*   - the commission approval FSM  (internal/services/commissions)        *)
(*   - the POS order engine         (internal/services/pos)                *)
(* Every request handler is a process that runs the handler's statements;  *)
(* a step of a process is one database round trip (a SELECT, or the writes *)
(* of a transaction up to its COMMIT).  The database is PostgreSQL at its  *)
(* default isolation level (READ COMMITTED): a plain SELECT takes no lock  *)
(* and sees committed rows only, SELECT ... FOR UPDATE holds the row until *)
(* the transaction ends, a unique index rejects a duplicate key.           *)
(***************************************************************************)
EXTENDS Integers, Sequences, FiniteSets, TLC

\* ------------------------------------------------------------------------
\* Bounds of the model
\* ------------------------------------------------------------------------
\* number of inventory requests that are started in one behaviour
MaxOps == 2

\* number of commission requests that are started in one behaviour
MaxCommOps == 2

\* number of CommissionCalculation rows
MaxCalcs == 2

\* number of order items the POS adds to the period while the engine runs
MaxNewSales == 1

\* number of POS requests that are started in one behaviour
MaxPosOps == 2

\* number of orders_documents rows (rolled back inserts included)
MaxOrders == 3

\* ListLowStock calls one client makes
MaxPageCalls == 4

\* the request handlers that run concurrently
Procs == {1, 2}

\* ------------------------------------------------------------------------
\* 32-bit signed arithmetic (Stock.AvailableQuantity, ReservedQuantity and
\* StockMovement.Quantity are int32; Go wraps on overflow)
\* ------------------------------------------------------------------------
MaxInt32 == 2147483647
MinInt32 == (-MaxInt32) - 1

\* a + b as Go computes it on int32 operands
Add32(a, b) ==
  IF b > 0 /\ a > MaxInt32 - b
    THEN ((a - MaxInt32) - 1) + ((b - MaxInt32) - 1)
    ELSE IF b < 0 /\ a < MinInt32 - b
      THEN ((a + MaxInt32) + 1) + ((b + MaxInt32) + 1)
      ELSE a + b

\* a - b as Go computes it on int32 operands (b > MinInt32)
Sub32(a, b) == Add32(a, -b)

\* ------------------------------------------------------------------------
\* Inventory: data
\* ------------------------------------------------------------------------
ProductP == 1
Warehouses == {1, 2}

\* quantities a request may carry (0 is rejected by validation)
Quantities == {0, 3, MaxInt32}

\* proto MovementType; UNSPECIFIED stands for every value UpdateStock's
\* switch sends to its default branch
MovementTypes == {"IN", "OUT", "ADJUSTMENT", "UNSPECIFIED"}

StockRow(w, a, r) == [product_id |-> ProductP, warehouse_id |-> w,
                      available |-> a, reserved |-> r]

\* the Stock tables a behaviour may start from: warehouse 1 holding
\* (available 5, reserved 0) and no row for warehouse 2; the same after a
\* reservation of 3; the same after a transfer of 3 to warehouse 2
InitStockTables ==
  { << StockRow(1, 5, 0) >>,
    << StockRow(1, 2, 3) >>,
    << StockRow(1, 2, 0), StockRow(2, 3, 0) >> }

\* the zero value of `var stock Stock`
NoStock == [product_id |-> 0, warehouse_id |-> 0, available |-> 0, reserved |-> 0]

NoInvReq == [op |-> "none", warehouse |-> 0, to |-> 0, quantity |-> 0,
             mtype |-> "UNSPECIFIED"]

\* no ListLowStock call was made
NoPaging == [page_size |-> 0, warehouse |-> 0, page_token |-> << >>, calls |-> 0,
             low_stocks |-> << >>, next_page_token |-> << >>]

NoInvLocal == [id |-> 0, stock |-> NoStock, toId |-> 0, toStock |-> NoStock]

VARIABLES
  paging,      \* the client paging through ListLowStock: its request and the pages so far
  stocks0,     \* the Stock table at start (never changes)
  stocks,      \* Stock table: row id = position (primary key order)
  movements,   \* StockMovement table, append-only
  ipc,         \* per handler: "idle", "readTo", "write"
  ireq,        \* per handler: the request it serves (or served last)
  ilocal,      \* per handler: the rows it read into local variables
  ires,        \* per handler: the response of its last request
  istarted     \* number of inventory requests started

invVars == << paging, stocks0, stocks, movements, ipc, ireq, ilocal, ires, istarted >>

VARIABLES
  sales,       \* pos.order_items of the period: line totals in cents
  tierSales,   \* pos.order_items of the period served by each tiered employee
  calcs0,      \* the CommissionCalculation table at start (never changes)
  calcs,       \* CommissionCalculation table: row id = position
  payments,    \* CommissionPayment table
  rowLock,     \* per calculation id: the handler holding its row lock, or 0
  cpc,         \* per handler: "idle", "locked", "delete", "deleteWait",
               \* "write"
  creq,        \* per handler: the request it serves (or served last)
  clocal,      \* per handler: the row or result it holds in local variables
  cdeleted,    \* per handler: the CommissionDetail rows the DELETE of its
               \* open transaction removed (the oldest rows of the calculation)
  cres,        \* per handler: the status of its last response
  cstarted,    \* number of commission requests started
  cfault,      \* whether a database statement has failed so far
  cache,       \* Redis: the cached calculation per id and the cached
               \* summary per employee, << >> for a missing key
  bulk         \* the bulk request in progress with its two result slices

commVars == << sales, tierSales, calcs0, calcs, payments, rowLock, cpc, creq, clocal,
              cdeleted, cres, cstarted, cfault, cache, bulk >>

VARIABLES
  orders0,     \* the orders_documents table at start (never changes)
  orders,      \* orders_documents: row id = position; tx = 0 committed,
               \* tx = p inserted by p's open transaction, tx = -1 rolled back
  orderItems,  \* order_items (committed rows)
  carts,       \* carts with their cart_items: row id = position
  events,      \* the messages published to Redis, in publication order
  ppc,         \* per handler: "idle", "readCart", "insert", "items",
               \* "publish", "save"
  preq,        \* per handler: the request it serves (or served last)
  plocal,      \* per handler: the order it holds in local variables
  pres,        \* per handler: the message of its last response
  pstarted     \* number of POS requests started

posVars == << orders0, orders, orderItems, carts, events, ppc, preq, plocal, pres,
             pstarted >>

vars == << invVars, commVars, posVars >>

\* the zero values of the commission handlers' local variables
NoCalc == [employee_id |-> 0, total_sales |-> 0, base_commission |-> 0,
           bonus_commission |-> 0, total_commission |-> 0, status |-> "UNSPECIFIED",
           calculated_by |-> 0, approved_by |-> 0, notes |-> << >>,
           details |-> << >>]

\* the employees whose commission_type is "tiered"
TieredEmployees == {5, 6}

\* no transaction has deleted CommissionDetail rows
NoDeleted == [p \in Procs |-> 0]

\* no tiered employee has served an item in the period
NoTierSales == [e \in TieredEmployees |-> << >>]

\* Redis without commission keys
NoCache == [calc |-> [i \in 1..MaxCalcs |-> << >>],
            summary |-> [e \in 1..4 |-> << >>]]

\* no bulk request
NoBulk == [op |-> "none", inputs |-> << >>, user |-> 0, collected |-> {},
           successes |-> << >>, errors |-> << >>, answer |-> << >>,
           crashed |-> FALSE]

NoCommReq == [seq |-> 0, op |-> "none", id |-> 0, employee |-> 0, save |-> FALSE,
              user |-> 0, notes |-> ""]



\* the zero values of the POS handlers' local variables
NoOrder == [document_number |-> "", cashier_id |-> 0, document_type |-> "UNSPECIFIED",
            payment_type_id |-> 0, subtotal |-> 0, tax_amount |-> 0,
            discount_amount |-> 0, total_amount |-> 0, paid_amount |-> 0,
            change_amount |-> 0, paid_status |-> "UNSPECIFIED", notes |-> "",
            tx |-> 0]

NoPosReq == [op |-> "none", document_number |-> "", cashier_id |-> 0,
             items |-> << >>, cart_id |-> 0, order_id |-> 0,
             payment_type_id |-> 0, paid_amount |-> 0, reason |-> "",
             item_ids |-> << >>, product_id |-> 0, quantity |-> 0,
             item_id |-> 0, discount_id |-> 0]

\* the zero value of `var cart Cart`
NoCart == [cashier_id |-> 0, status |-> 0, items |-> << >>, subtotal |-> 0,
           discount_amount |-> 0, tax_amount |-> 0, total_amount |-> 0]

NoPosLocal == [id |-> 0, order |-> NoOrder, cart |-> NoCart, rows |-> << >>,
               full |-> FALSE, ids |-> << >>]


\* ------------------------------------------------------------------------
\* Inventory: helpers
\* ------------------------------------------------------------------------
\* tx.Where("product_id = ? AND warehouse_id = ?").First(&stock): the id of
\* the first matching row in primary-key order, 0 for ErrRecordNotFound
FirstStock(tbl, w) ==
  IF \E i \in 1..Len(tbl) : tbl[i].product_id = ProductP /\ tbl[i].warehouse_id = w
    THEN CHOOSE i \in 1..Len(tbl) :
           /\ tbl[i].product_id = ProductP /\ tbl[i].warehouse_id = w
           /\ \A j \in 1..(i - 1) :
                ~(tbl[j].product_id = ProductP /\ tbl[j].warehouse_id = w)
    ELSE 0

\* tx.Save(&stock): UPDATE of the whole row when the primary key is set,
\* INSERT when it is zero
SaveStock(tbl, id, row) ==
  IF id = 0 THEN Append(tbl, row) ELSE [tbl EXCEPT ![id] = row]

\* a StockMovement; reference_id is the request's reference unless the
\* handler makes one
Movement(w, t, q) == [product_id |-> ProductP, warehouse_id |-> w,
                      movement_type |-> t, quantity |-> q, reference_id |-> << >>]

\* request validation shared by Reserve/Release/UpdateStock
ValidQty(q) == q > 0

InvIdle(p) == ipc[p] = "idle" /\ istarted < MaxOps

\* an inventory handler returns: its response is recorded and it becomes idle
InvReturn(p, r) ==
  /\ ipc' = [ipc EXCEPT ![p] = "idle"]
  /\ ires' = [ires EXCEPT ![p] = r]
  /\ ilocal' = [ilocal EXCEPT ![p] = NoInvLocal]

InvInit ==
  /\ paging = NoPaging
  /\ stocks0 \in InitStockTables
  /\ stocks = stocks0
  /\ movements = << >>
  /\ ipc = [p \in Procs |-> "idle"]
  /\ ireq = [p \in Procs |-> NoInvReq]
  /\ ilocal = [p \in Procs |-> NoInvLocal]
  /\ ires = [p \in Procs |-> "none"]
  /\ istarted = 0
  \* the commission tables are empty and its handlers idle
  /\ sales = << >> /\ calcs0 = << >> /\ calcs = << >> /\ payments = << >>
  /\ tierSales = NoTierSales
  /\ cdeleted = NoDeleted
  /\ rowLock = [i \in 1..MaxCalcs |-> 0]
  /\ cpc = [p \in Procs |-> "idle"]
  /\ creq = [p \in Procs |-> NoCommReq]
  /\ clocal = [p \in Procs |-> NoCalc]
  /\ cres = [p \in Procs |-> "none"]
  /\ cstarted = 0
  /\ cfault = FALSE
  /\ cache = NoCache /\ bulk = NoBulk
  \* the POS tables are empty and its handlers idle
  /\ orders0 = << >> /\ orders = << >> /\ orderItems = << >>
  /\ carts = << >> /\ events = << >>
  /\ ppc = [p \in Procs |-> "idle"]
  /\ preq = [p \in Procs |-> NoPosReq]
  /\ plocal = [p \in Procs |-> NoPosLocal]
  /\ pres = [p \in Procs |-> "none"]
  /\ pstarted = 0

\* ------------------------------------------------------------------------
\* ReserveStock
\* ------------------------------------------------------------------------
\* validation, Begin, SELECT of the row and the stock check
ReserveStockRead(p, w, q) ==
  /\ InvIdle(p)
  /\ istarted' = istarted + 1
  /\ ireq' = [ireq EXCEPT ![p] = [NoInvReq EXCEPT !.op = "Reserve",
                                   !.warehouse = w, !.quantity = q]]
  /\ UNCHANGED << commVars, posVars, stocks0, paging, stocks, movements >>
  /\ IF ~ValidQty(q)
       THEN InvReturn(p, "invalid_argument")
       ELSE LET id == FirstStock(stocks, w) IN
            IF id = 0
              THEN InvReturn(p, "not_found")
              ELSE IF stocks[id].available < q
                THEN InvReturn(p, "insufficient_stock")
                ELSE /\ ipc' = [ipc EXCEPT ![p] = "write"]
                     /\ ilocal' = [ilocal EXCEPT ![p] =
                                     [NoInvLocal EXCEPT !.id = id, !.stock = stocks[id]]]
                     /\ ires' = [ires EXCEPT ![p] = "pending"]

\* the Stock tables of the Reserve/Release round trips: warehouse 1 holding
\* (5, 0); warehouse 1 holding (3, MaxInt32), the row UpdateStock IN
\* MaxInt32 on a missing row, ReserveStock MaxInt32 and UpdateStock IN 3
\* leave
RoundTripTables ==
  { << StockRow(1, 5, 0) >>,
    << StockRow(1, 3, MaxInt32) >> }

\* the local row after `AvailableQuantity -= q; ReservedQuantity += q`
ReservedRow(s, q) ==
  [s EXCEPT !.available = Sub32(s.available, q),
            !.reserved = Add32(s.reserved, q)]

\* Save of the row, Create of the movement, Commit
ReserveStockWrite(p) ==
  /\ ipc[p] = "write" /\ ireq[p].op = "Reserve"
  /\ stocks' = SaveStock(stocks, ilocal[p].id,
                         ReservedRow(ilocal[p].stock, ireq[p].quantity))
  /\ movements' = Append(movements,
                         Movement(ireq[p].warehouse, "ADJUSTMENT", ireq[p].quantity))
  /\ InvReturn(p, "ok")
  /\ UNCHANGED << commVars, posVars, stocks0, paging, ireq, istarted >>

\* ------------------------------------------------------------------------
\* ReleaseStock
\* ------------------------------------------------------------------------
ReleaseStockRead(p, w, q) ==
  /\ InvIdle(p)
  /\ istarted' = istarted + 1
  /\ ireq' = [ireq EXCEPT ![p] = [NoInvReq EXCEPT !.op = "Release",
                                   !.warehouse = w, !.quantity = q]]
  /\ UNCHANGED << commVars, posVars, stocks0, paging, stocks, movements >>
  /\ IF ~ValidQty(q)
       THEN InvReturn(p, "invalid_argument")
       ELSE LET id == FirstStock(stocks, w) IN
            IF id = 0
              THEN InvReturn(p, "not_found")
              ELSE IF stocks[id].reserved < q
                THEN InvReturn(p, "insufficient_reserved")
                ELSE /\ ipc' = [ipc EXCEPT ![p] = "write"]
                     /\ ilocal' = [ilocal EXCEPT ![p] =
                                     [NoInvLocal EXCEPT !.id = id, !.stock = stocks[id]]]
                     /\ ires' = [ires EXCEPT ![p] = "pending"]

\* the local row after `ReservedQuantity -= q; AvailableQuantity += q`
ReleasedRow(s, q) ==
  [s EXCEPT !.reserved = Sub32(s.reserved, q),
            !.available = Add32(s.available, q)]

ReleaseStockWrite(p) ==
  /\ ipc[p] = "write" /\ ireq[p].op = "Release"
  /\ stocks' = SaveStock(stocks, ilocal[p].id,
                         ReleasedRow(ilocal[p].stock, ireq[p].quantity))
  /\ movements' = Append(movements,
                         Movement(ireq[p].warehouse, "ADJUSTMENT", ireq[p].quantity))
  /\ InvReturn(p, "ok")
  /\ UNCHANGED << commVars, posVars, stocks0, paging, ireq, istarted >>

\* ------------------------------------------------------------------------
\* UpdateStock
\* ------------------------------------------------------------------------
\* the row UpdateStock works on: the one it read, or a fresh zero row
\* (primary key 0) when there is none
UpdateBase(tbl, w) ==
  LET id == FirstStock(tbl, w) IN
  IF id = 0
    THEN [id |-> 0, stock |-> [product_id |-> ProductP, warehouse_id |-> w,
                                available |-> 0, reserved |-> 0]]
    ELSE [id |-> id, stock |-> tbl[id]]

\* the switch without the stock check of OUT
UpdateOutcomeOutUnchecked(s, mt, q) ==
  CASE mt = "IN" -> [ok |-> TRUE, available |-> Add32(s.available, q), why |-> "ok"]
    [] mt = "OUT" -> [ok |-> TRUE, available |-> Sub32(s.available, q), why |-> "ok"]
    [] mt = "ADJUSTMENT" ->
         IF Add32(s.available, q) < 0
           THEN [ok |-> FALSE, available |-> s.available, why |-> "negative_stock"]
           ELSE [ok |-> TRUE, available |-> Add32(s.available, q), why |-> "ok"]
    [] OTHER -> [ok |-> FALSE, available |-> s.available, why |-> "invalid_movement_type"]

\* the switch on the movement type: the new available quantity, or the
\* reason the request is refused
UpdateOutcome(s, mt, q) ==
  CASE mt = "IN" -> [ok |-> TRUE, available |-> Add32(s.available, q), why |-> "ok"]
    [] mt = "OUT" ->
         IF s.available < q
           THEN [ok |-> FALSE, available |-> s.available, why |-> "insufficient_stock"]
           ELSE [ok |-> TRUE, available |-> Sub32(s.available, q), why |-> "ok"]
    [] mt = "ADJUSTMENT" ->
         IF Add32(s.available, q) < 0
           THEN [ok |-> FALSE, available |-> s.available, why |-> "negative_stock"]
           ELSE [ok |-> TRUE, available |-> Add32(s.available, q), why |-> "ok"]
    [] OTHER -> [ok |-> FALSE, available |-> s.available, why |-> "invalid_movement_type"]

UpdateStockRead(p, w, q, mt) ==
  /\ InvIdle(p)
  /\ istarted' = istarted + 1
  /\ ireq' = [ireq EXCEPT ![p] = [NoInvReq EXCEPT !.op = "Update", !.warehouse = w,
                                   !.quantity = q, !.mtype = mt]]
  /\ UNCHANGED << commVars, posVars, stocks0, paging, stocks, movements >>
  /\ IF ~ValidQty(q)
       THEN InvReturn(p, "invalid_argument")
       ELSE LET b == UpdateBase(stocks, w)
                o == UpdateOutcome(b.stock, mt, q) IN
            IF ~o.ok
              THEN InvReturn(p, o.why)
              ELSE /\ ipc' = [ipc EXCEPT ![p] = "write"]
                   /\ ilocal' = [ilocal EXCEPT ![p] =
                        [NoInvLocal EXCEPT !.id = b.id,
                                           !.stock = [b.stock EXCEPT !.available = o.available]]]
                   /\ ires' = [ires EXCEPT ![p] = "pending"]

UpdateStockWrite(p) ==
  /\ ipc[p] = "write" /\ ireq[p].op = "Update"
  /\ stocks' = SaveStock(stocks, ilocal[p].id, ilocal[p].stock)
  /\ movements' = Append(movements,
                         Movement(ireq[p].warehouse, ireq[p].mtype, ireq[p].quantity))
  /\ InvReturn(p, "ok")
  /\ UNCHANGED << commVars, posVars, stocks0, paging, ireq, istarted >>

\* ------------------------------------------------------------------------
\* TransferStock
\* ------------------------------------------------------------------------
\* validation, Begin, SELECT of the source row and the stock check
TransferStockReadFrom(p, from, to, q) ==
  /\ InvIdle(p)
  /\ istarted' = istarted + 1
  /\ ireq' = [ireq EXCEPT ![p] = [NoInvReq EXCEPT !.op = "Transfer", !.warehouse = from,
                                   !.to = to, !.quantity = q]]
  /\ UNCHANGED << commVars, posVars, stocks0, paging, stocks, movements >>
  /\ IF ~ValidQty(q) \/ from = to
       THEN InvReturn(p, "invalid_argument")
       ELSE LET id == FirstStock(stocks, from) IN
            IF id = 0
              THEN InvReturn(p, "not_found")
              ELSE IF stocks[id].available < q
                THEN InvReturn(p, "insufficient_stock")
                ELSE /\ ipc' = [ipc EXCEPT ![p] = "readTo"]
                     /\ ilocal' = [ilocal EXCEPT ![p] =
                                     [NoInvLocal EXCEPT !.id = id, !.stock = stocks[id]]]
                     /\ ires' = [ires EXCEPT ![p] = "pending"]

\* SELECT of the destination row (a fresh zero row when there is none)
TransferStockReadTo(p) ==
  /\ ipc[p] = "readTo"
  /\ LET b == UpdateBase(stocks, ireq[p].to) IN
     ilocal' = [ilocal EXCEPT ![p].toId = b.id, ![p].toStock = b.stock]
  /\ ipc' = [ipc EXCEPT ![p] = "write"]
  /\ UNCHANGED << commVars, posVars, stocks0, paging, stocks, movements, ireq, ires, istarted >>

\* outMovement and inMovement with their shared transferRefId
\* "TRANSFER_<product>_<from>_<unix seconds>", made once per call
TransferMovements(from, to, q) ==
  LET transferRefId == << "TRANSFER", ProductP, from >> IN
  << [Movement(from, "TRANSFER", -q) EXCEPT !.reference_id = transferRefId],
     [Movement(to, "TRANSFER", q) EXCEPT !.reference_id = transferRefId] >>

\* Save of both rows, Create of both movements, Commit
TransferStockWrite(p) ==
  /\ ipc[p] = "write" /\ ireq[p].op = "Transfer"
  /\ LET q == ireq[p].quantity
         fromRow == [ilocal[p].stock EXCEPT !.available = Sub32(@, q)]
         toRow == [ilocal[p].toStock EXCEPT !.available = Add32(@, q)]
     IN /\ stocks' = SaveStock(SaveStock(stocks, ilocal[p].id, fromRow),
                               ilocal[p].toId, toRow)
        /\ movements' = movements \o TransferMovements(ireq[p].warehouse, ireq[p].to, q)
  /\ InvReturn(p, "ok")
  /\ UNCHANGED << commVars, posVars, stocks0, paging, ireq, istarted >>

\* a statement of the open transaction fails (connection lost, deadlock
\* victim, ...): Rollback, the error is returned, nothing was written
InvDbError(p) ==
  /\ ipc[p] \in {"readTo", "write"}
  /\ InvReturn(p, "internal")
  /\ UNCHANGED << commVars, posVars, stocks0, paging, stocks, movements, ireq, istarted >>

\* the COMMIT of the open transaction fails (connection lost): nothing was
\* written; the four handlers call tx.Commit() without reading its error
\* and answer Success: true
InvCommitError(p) ==
  /\ ipc[p] = "write"
  /\ InvReturn(p, "ok")
  /\ UNCHANGED << commVars, posVars, stocks0, paging, stocks, movements, ireq, istarted >>

\* ------------------------------------------------------------------------
\* ListLowStock
\* ------------------------------------------------------------------------
\* Where("available_quantity <= ?", 10)
LowStockThreshold == 10

\* pageSize := int32(50), kept when the request's page_size is not positive
DefaultPageSize == 50

\* the page sizes and warehouse filters a request may carry (0 is unset)
PageSizes == {0, 1, 2, 3}
WarehouseFilters == {0, 1, 2}

\* the ids of the rows the query selects, in primary-key order
RECURSIVE LowStocks(_, _, _)
LowStocks(tbl, w, i) ==
  IF i > Len(tbl) THEN << >>
  ELSE (IF (w = 0 \/ tbl[i].warehouse_id = w) /\ tbl[i].available <= LowStockThreshold
          THEN << i >> ELSE << >>) \o LowStocks(tbl, w, i + 1)

\* ListLowStock: offset stays 0 whatever the page token is (the branch for
\* a non-empty token has no statement); a token is the decimal string of
\* offset + pageSize, << >> is ""
ListLowStock(tbl, size, w, pageToken) ==
  LET pageSize == IF size > 0 THEN size ELSE DefaultPageSize
      offset == 0
      selected == LowStocks(tbl, w, 1)
      totalCount == Len(selected)
      last == IF offset + pageSize < totalCount THEN offset + pageSize ELSE totalCount
      page == SubSeq(selected, offset + 1, last) IN
  [low_stocks |-> page,
   next_page_token |-> IF Len(page) = pageSize /\ offset + pageSize < totalCount
                         THEN << offset + pageSize >> ELSE << >>,
   total_count |-> totalCount]

\* a client starts paging with an empty page_token
ListLowStockFirst(size, w) ==
  /\ paging.calls = 0
  /\ LET res == ListLowStock(stocks, size, w, << >>) IN
     paging' = [page_size |-> size, warehouse |-> w, page_token |-> << >>, calls |-> 1,
                low_stocks |-> res.low_stocks,
                next_page_token |-> res.next_page_token]
  /\ UNCHANGED << commVars, posVars, stocks0, stocks, movements, ipc, ireq, ilocal,
                  ires, istarted >>

\* the client passes the next_page_token it got back
ListLowStockNext ==
  /\ paging.calls \in 1..(MaxPageCalls - 1)
  /\ paging.next_page_token # << >>
  /\ LET res == ListLowStock(stocks, paging.page_size, paging.warehouse,
                             paging.next_page_token) IN
     paging' = [paging EXCEPT !.page_token = paging.next_page_token,
                              !.calls = @ + 1,
                              !.low_stocks = @ \o res.low_stocks,
                              !.next_page_token = res.next_page_token]
  /\ UNCHANGED << commVars, posVars, stocks0, stocks, movements, ipc, ireq, ilocal,
                  ires, istarted >>

\* the Stock tables ListLowStock pages over: a row for each of products 1
\* and 2 in each warehouse, at, on or above the threshold
PagingTables ==
  { << StockRow(1, a, 0), StockRow(2, b, 0),
       [StockRow(1, c, 0) EXCEPT !.product_id = 2],
       [StockRow(2, d, 0) EXCEPT !.product_id = 2] >> :
      a \in {5, 10, 11}, b \in {5, 10, 11}, c \in {5, 10, 11}, d \in {5, 10, 11} }

PagingInit ==
  /\ paging = NoPaging
  /\ stocks0 \in PagingTables
  /\ stocks = stocks0
  /\ movements = << >>
  /\ ipc = [p \in Procs |-> "idle"]
  /\ ireq = [p \in Procs |-> NoInvReq]
  /\ ilocal = [p \in Procs |-> NoInvLocal]
  /\ ires = [p \in Procs |-> "none"]
  /\ istarted = 0
  \* the commission tables are empty and its handlers idle
  /\ sales = << >> /\ calcs0 = << >> /\ calcs = << >> /\ payments = << >>
  /\ tierSales = NoTierSales
  /\ cdeleted = NoDeleted
  /\ rowLock = [i \in 1..MaxCalcs |-> 0]
  /\ cpc = [p \in Procs |-> "idle"]
  /\ creq = [p \in Procs |-> NoCommReq]
  /\ clocal = [p \in Procs |-> NoCalc]
  /\ cres = [p \in Procs |-> "none"]
  /\ cstarted = 0
  /\ cfault = FALSE
  /\ cache = NoCache /\ bulk = NoBulk
  \* the POS tables are empty and its handlers idle
  /\ orders0 = << >> /\ orders = << >> /\ orderItems = << >>
  /\ carts = << >> /\ events = << >>
  /\ ppc = [p \in Procs |-> "idle"]
  /\ preq = [p \in Procs |-> NoPosReq]
  /\ plocal = [p \in Procs |-> NoPosLocal]
  /\ pres = [p \in Procs |-> "none"]
  /\ pstarted = 0

\* one client paging over unchanged data
PagingNext ==
  \/ \E size \in PageSizes, w \in WarehouseFilters : ListLowStockFirst(size, w)
  \/ ListLowStockNext

\* the number of pages of the given size that hold n rows
PagesFor(n, size) == IF n = 0 THEN 1 ELSE (n + size - 1) \div size

\* C35: paging over unchanged data, from an empty page_token and with each
\* next_page_token passed back, ends: the k-th call is made only while
\* rows remain beyond the k - 1 pages already returned, no row is returned
\* twice, and when the empty next_page_token arrives every low-stock row
\* was returned exactly once
C35_PagingTerminatesComplete ==
  paging.calls >= 1 =>
    LET size == IF paging.page_size > 0 THEN paging.page_size ELSE DefaultPageSize
        selected == LowStocks(stocks, paging.warehouse, 1) IN
    /\ paging.calls <= PagesFor(Len(selected), size)
    /\ \A i, j \in 1..Len(paging.low_stocks) :
         paging.low_stocks[i] = paging.low_stocks[j] => i = j
    /\ paging.next_page_token = << >> => paging.low_stocks = selected

\* ReserveStock and ReleaseStock alone
RoundTripNext ==
  \/ \E p \in Procs, w \in Warehouses, q \in Quantities : ReserveStockRead(p, w, q)
  \/ \E p \in Procs : ReserveStockWrite(p)
  \/ \E p \in Procs, w \in Warehouses, q \in Quantities : ReleaseStockRead(p, w, q)
  \/ \E p \in Procs : ReleaseStockWrite(p)
  \/ \E p \in Procs : InvDbError(p)

\* the start of the round trips: as InvInit, from a table of RoundTripTables
RoundTripInit ==
  /\ paging = NoPaging
  /\ stocks0 \in RoundTripTables
  /\ stocks = stocks0
  /\ movements = << >>
  /\ ipc = [p \in Procs |-> "idle"]
  /\ ireq = [p \in Procs |-> NoInvReq]
  /\ ilocal = [p \in Procs |-> NoInvLocal]
  /\ ires = [p \in Procs |-> "none"]
  /\ istarted = 0
  /\ sales = << >> /\ calcs0 = << >> /\ calcs = << >> /\ payments = << >>
  /\ tierSales = NoTierSales
  /\ cdeleted = NoDeleted
  /\ rowLock = [i \in 1..MaxCalcs |-> 0]
  /\ cpc = [p \in Procs |-> "idle"]
  /\ creq = [p \in Procs |-> NoCommReq]
  /\ clocal = [p \in Procs |-> NoCalc]
  /\ cres = [p \in Procs |-> "none"]
  /\ cstarted = 0
  /\ cfault = FALSE
  /\ cache = NoCache /\ bulk = NoBulk
  /\ orders0 = << >> /\ orders = << >> /\ orderItems = << >>
  /\ carts = << >> /\ events = << >>
  /\ ppc = [p \in Procs |-> "idle"]
  /\ preq = [p \in Procs |-> NoPosReq]
  /\ plocal = [p \in Procs |-> NoPosLocal]
  /\ pres = [p \in Procs |-> "none"]
  /\ pstarted = 0

InvNext ==
  \/ \E p \in Procs, w \in Warehouses, q \in Quantities : ReserveStockRead(p, w, q)
  \/ \E p \in Procs : ReserveStockWrite(p)
  \/ \E p \in Procs, w \in Warehouses, q \in Quantities : ReleaseStockRead(p, w, q)
  \/ \E p \in Procs : ReleaseStockWrite(p)
  \/ \E p \in Procs, w \in Warehouses, q \in Quantities, mt \in MovementTypes :
        UpdateStockRead(p, w, q, mt)
  \/ \E p \in Procs : UpdateStockWrite(p)
  \/ \E p \in Procs, w \in Warehouses, t \in Warehouses, q \in Quantities :
        TransferStockReadFrom(p, w, t, q)
  \/ \E p \in Procs : TransferStockReadTo(p)
  \/ \E p \in Procs : TransferStockWrite(p)
  \/ \E p \in Procs : InvDbError(p)

\* the inventory handlers with a database whose COMMIT can fail as well
LedgerNext ==
  \/ \E p \in Procs, w \in Warehouses, q \in Quantities : ReserveStockRead(p, w, q)
  \/ \E p \in Procs : ReserveStockWrite(p)
  \/ \E p \in Procs, w \in Warehouses, q \in Quantities : ReleaseStockRead(p, w, q)
  \/ \E p \in Procs : ReleaseStockWrite(p)
  \/ \E p \in Procs, w \in Warehouses, q \in Quantities, mt \in MovementTypes :
        UpdateStockRead(p, w, q, mt)
  \/ \E p \in Procs : UpdateStockWrite(p)
  \/ \E p \in Procs, w \in Warehouses, t \in Warehouses, q \in Quantities :
        TransferStockReadFrom(p, w, t, q)
  \/ \E p \in Procs : TransferStockReadTo(p)
  \/ \E p \in Procs : TransferStockWrite(p)
  \/ \E p \in Procs : InvDbError(p)
  \/ \E p \in Procs : InvCommitError(p)

\* ------------------------------------------------------------------------
\* Inventory: properties
\* ------------------------------------------------------------------------
\* Exact (unbounded) sums of int32 values: the pair << k, r >> stands for
\* k * 2^31 + r with 0 <= r < 2^31
WZero == << 0, 0 >>

WAdd(w, x) ==
  IF x >= 0
    THEN IF w[2] > MaxInt32 - x
           THEN << w[1] + 1, ((w[2] - MaxInt32) - 1) + x >>
           ELSE << w[1], w[2] + x >>
    ELSE IF w[2] + x < 0
           THEN << w[1] - 1, ((w[2] + x) + MaxInt32) + 1 >>
           ELSE << w[1], w[2] + x >>

\* the movement rows of one (product, warehouse) with type IN, OUT or
\* ADJUSTMENT, summed over their stored (signed) quantity field
RECURSIVE LedgerSum(_, _)
LedgerSum(ms, w) ==
  IF ms = << >> THEN WZero
  ELSE LET m == ms[Len(ms)]
           rest == LedgerSum(SubSeq(ms, 1, Len(ms) - 1), w) IN
       IF /\ m.product_id = ProductP /\ m.warehouse_id = w
          /\ m.movement_type \in {"IN", "OUT", "ADJUSTMENT"}
         THEN WAdd(rest, m.quantity)
         ELSE rest

\* available + reserved of row i at start (0 for a row created later)
InitialStock(i) ==
  IF i <= Len(stocks0) THEN stocks0[i].available + stocks0[i].reserved ELSE 0

\* C1: every Stock row has available_qty >= 0 and reserved_qty >= 0 in
\* every state reachable by any interleaving of Reserve/Release/Update/
\* Transfer calls.
C1_NonNegativeStock ==
  \A i \in 1..Len(stocks) : stocks[i].available >= 0 /\ stocks[i].reserved >= 0

\* C2: of two concurrent ReserveStock(P, W1, 3) calls on a row with
\* available 5 exactly one succeeds, the other fails for insufficient
\* stock, and the row ends at (available 2, reserved 3).
C2_TwoReservesOneWins ==
  ( /\ stocks0 = << StockRow(1, 5, 0) >>
    /\ istarted = 2
    /\ \A p \in Procs :
         /\ ipc[p] = "idle"
         /\ ireq[p].op = "Reserve" /\ ireq[p].warehouse = 1 /\ ireq[p].quantity = 3
         /\ ires[p] # "internal" )
  => /\ Cardinality({p \in Procs : ires[p] = "ok"}) = 1
     /\ Cardinality({p \in Procs : ires[p] = "insufficient_stock"}) = 1
     /\ stocks[1].available = 2 /\ stocks[1].reserved = 3

\* C3: for every Stock row, the sum of the signed quantities of its
\* IN/OUT/ADJUSTMENT movement rows equals available_qty + reserved_qty
\* minus the row's initial stock.
C3_LedgerMatchesBalance ==
  \A i \in 1..Len(stocks) :
    WAdd(LedgerSum(movements, stocks[i].warehouse_id), InitialStock(i))
      = WAdd(WAdd(WZero, stocks[i].available), stocks[i].reserved)

\* handler r has answered success to a request of this kind and is idle
InvDone(r, op) == ipc[r] = "idle" /\ ires[r] = "ok" /\ ireq[r].op = op

\* in this step handler p takes up the second request of the behaviour
InvSecondCall(p) == ipc[p] = "idle" /\ istarted = 1 /\ istarted' = 2

\* in this step handler p commits and answers success
InvCommits(p, op) ==
  ipc[p] = "write" /\ ireq[p].op = op /\ ipc'[p] = "idle" /\ ires'[p] = "ok"

\* the balances of the (product, warehouse) pair, zero without a row
BalanceAt(tbl, w) ==
  IF FirstStock(tbl, w) = 0 THEN << 0, 0 >>
  ELSE << tbl[FirstStock(tbl, w)].available, tbl[FirstStock(tbl, w)].reserved >>

C16Step ==
  \A p, r \in Procs :
    (p # r /\ InvDone(r, "Reserve"))
      => /\ ( /\ InvSecondCall(p)
              /\ ireq'[p] = [ireq[r] EXCEPT !.op = "Release"] )
            => ipc'[p] = "write"
         /\ ( /\ InvCommits(p, "Release")
              /\ ireq[p] = [ireq[r] EXCEPT !.op = "Release"]
              /\ ilocal[p].stock = stocks[ilocal[p].id] )
            => BalanceAt(stocks', ireq[p].warehouse)
                 = BalanceAt(stocks0, ireq[p].warehouse)

\* C16: for every Stock row and every q with 0 < q <= available_qty, a
\* successful ReserveStock(q) followed by ReleaseStock(q), the only two
\* calls of the behaviour, is not refused and restores available_qty and
\* reserved_qty to the values before the reserve.
C16_ReserveReleaseRestores == [][C16Step]_vars

\* the available_qty of two warehouses, summed exactly
SumAvailable(tbl, a, b) ==
  WAdd(WAdd(WZero, BalanceAt(tbl, a)[1]), BalanceAt(tbl, b)[1])

\* the rows handler p read for its transfer are still the rows of the table
TransferRowsCurrent(p) ==
  /\ ilocal[p].stock = stocks[ilocal[p].id]
  /\ IF ilocal[p].toId = 0
       THEN FirstStock(stocks, ireq[p].to) = 0
       ELSE ilocal[p].toStock = stocks[ilocal[p].toId]

\* the request of the transfer back
TransferBack(req) == [req EXCEPT !.warehouse = req.to, !.to = req.warehouse]

C17Step ==
  \A p \in Procs :
    /\ (InvCommits(p, "Transfer") /\ TransferRowsCurrent(p))
         => SumAvailable(stocks', ireq[p].warehouse, ireq[p].to)
              = SumAvailable(stocks, ireq[p].warehouse, ireq[p].to)
    /\ \A r \in Procs :
         (p # r /\ InvDone(r, "Transfer"))
           => /\ (InvSecondCall(p) /\ ireq'[p] = TransferBack(ireq[r]))
                 => ipc'[p] = "readTo"
              /\ ( /\ InvCommits(p, "Transfer") /\ TransferRowsCurrent(p)
                   /\ ireq[p] = TransferBack(ireq[r]) )
                 => \A w \in Warehouses : BalanceAt(stocks', w) = BalanceAt(stocks0, w)

\* C17: every successful TransferStock leaves the sum of available_qty
\* over its two warehouses unchanged, and a successful TransferStock(a->b,
\* q) followed by TransferStock(b->a, q), the only two calls of the
\* behaviour, is not refused and restores available_qty and reserved_qty
\* of both warehouses.
C17_TransferBackRestores == [][C17Step]_vars

\* in this step handler p takes up a request of this kind
InvCalls(p, op) ==
  /\ ipc[p] = "idle" /\ istarted' = istarted + 1 /\ ireq'[p].op = op
  /\ (ireq'[p] # ireq[p] \/ ires'[p] # ires[p] \/ ipc'[p] # "idle")

\* the request handler p takes up asks for more than the row it reads holds
BeyondStock(p) ==
  LET req == ireq'[p]
      balance == BalanceAt(stocks, req.warehouse) IN
  \/ InvCalls(p, "Reserve") /\ req.quantity > balance[1]
  \/ InvCalls(p, "Update") /\ req.mtype = "OUT" /\ req.quantity > balance[1]
  \/ InvCalls(p, "Transfer") /\ req.quantity > balance[1]
  \/ InvCalls(p, "Release") /\ req.quantity > balance[2]

C18Step ==
  \A p \in Procs :
    BeyondStock(p)
      => /\ ipc'[p] = "idle" /\ ires'[p] \notin {"ok", "pending"}
         /\ stocks' = stocks /\ movements' = movements

\* C18: a ReserveStock, UpdateStock OUT or TransferStock with a quantity
\* greater than the available_qty of the row it reads, and a ReleaseStock
\* with a quantity greater than its reserved_qty, fails and writes nothing:
\* the Stock table is unchanged and no StockMovement row is appended.
C18_BeyondStockRefused == [][C18Step]_vars

C18_Witness ==
  \E p \in Procs :
    /\ ipc[p] = "idle" /\ ireq[p].op = "Reserve"
    /\ ires[p] = "insufficient_stock"
    /\ ireq[p].quantity > BalanceAt(stocks, ireq[p].warehouse)[1]
    /\ stocks = stocks0 /\ movements = << >>

\* handler p answers with success in this step
InvSucceeds(p) == ipc[p] # "idle" /\ ipc'[p] = "idle" /\ ires'[p] = "ok"

\* the Stock rows of one (product_id, warehouse_id)
RowsOfPair(tbl, w) ==
  { i \in 1..Len(tbl) : tbl[i].product_id = ProductP /\ tbl[i].warehouse_id = w }

\* C34: after any interleaving of UpdateStock and TransferStock calls the
\* Stock table holds at most one row per (product_id, warehouse_id); an
\* UpdateStock that commits for a pair without a row adds exactly one row,
\* zero balances plus the delta; an UpdateStock OUT on a pair without a
\* row fails and adds no row
C34Step ==
  /\ \A w \in Warehouses : Cardinality(RowsOfPair(stocks', w)) <= 1
  /\ \A p \in Procs :
       ( /\ InvSucceeds(p) /\ ireq[p].op = "Update"
         /\ stocks' # stocks
         /\ RowsOfPair(stocks, ireq[p].warehouse) = {} ) =>
         /\ Len(stocks') = Len(stocks) + 1
         /\ stocks'[Len(stocks')] = StockRow(ireq[p].warehouse, ireq[p].quantity, 0)
  /\ \A p \in Procs :
       ( /\ InvCalls(p, "Update") /\ ireq'[p].mtype = "OUT" /\ ValidQty(ireq'[p].quantity)
         /\ RowsOfPair(stocks, ireq'[p].warehouse) = {} ) =>
         /\ ipc'[p] = "idle" /\ ires'[p] = "insufficient_stock"
         /\ stocks' = stocks

C34_OneRowPerPair == [][C34Step]_vars

\* the int32 sum of the stored quantity and the request's quantity is the
\* mathematical sum, and it is not negative
SumExact(pre, q, new) ==
  /\ pre <= MaxInt32 - q
  /\ new = pre + q
  /\ new >= 0

C40Step ==
  \A p \in Procs :
    /\ ( /\ InvCalls(p, "Update") /\ ipc'[p] = "write"
         /\ ireq'[p].mtype \in {"IN", "ADJUSTMENT"} )
         => SumExact(BalanceAt(stocks, ireq'[p].warehouse)[1], ireq'[p].quantity,
                     ilocal'[p].stock.available)
    /\ ( InvCommits(p, "Transfer") /\ stocks' # stocks )
         => \E i \in 1..Len(stocks') :
              /\ stocks'[i].warehouse_id = ireq[p].to
              /\ SumExact(ilocal[p].toStock.available, ireq[p].quantity,
                          stocks'[i].available)

\* C40: for every quantity validation accepts, an UpdateStock IN or
\* ADJUSTMENT that is not rejected computes available_qty = stored
\* quantity + quantity, the mathematical sum, not negative, and a
\* TransferStock that commits stores that sum in the destination row:
\* the int32 addition never wraps.
C40_AvailableNeverWraps == [][C40Step]_vars

\* the movement rows and the Stock change a successful answer of p stands
\* for: one row at the request's warehouse, for TransferStock -q at the
\* source and +q at the destination under one reference id
LedgerRows(p) ==
  LET added == SubSeq(movements', Len(movements) + 1, Len(movements'))
      q == ireq[p].quantity IN
  /\ Len(movements') >= Len(movements)
  /\ SubSeq(movements', 1, Len(movements)) = movements
  /\ IF ireq[p].op = "Transfer"
       THEN /\ Len(added) = 2
            /\ added[1].warehouse_id = ireq[p].warehouse /\ added[1].quantity = -q
            /\ added[2].warehouse_id = ireq[p].to /\ added[2].quantity = q
            /\ added[1].reference_id = added[2].reference_id
       ELSE /\ Len(added) = 1
            /\ added[1].warehouse_id = ireq[p].warehouse

\* C26: every successful Reserve/Release/UpdateStock appends exactly one
\* StockMovement and TransferStock exactly two (-q at the source, +q at
\* the destination, same reference id), in the step that changes the Stock
\* rows; no other step changes Stock rows or movements, so a failed call
\* leaves neither
C26Step ==
  /\ \A p \in Procs : InvSucceeds(p) => LedgerRows(p)
  /\ (\A p \in Procs : ~InvSucceeds(p)) => UNCHANGED << stocks, movements >>

C26_MovementsWithStockChange == [][C26Step]_vars

\* ------------------------------------------------------------------------
\* Commissions: data
\* ------------------------------------------------------------------------
\* user.employees as calculateCommissionLogic reads it.  Employee 1 is
\* active and paid a percentage; employee 2 is inactive; employee 3 is
\* active and has the commission_type the user service writes (an int32,
\* read back into the string field as "1"); employee 4 is active, paid a
\* percentage, and served one item that was discounted to a line total of 0;
\* employees 5 and 6 are active and tiered.
Employees == {1, 2, 3, 4, 5, 6}

\* the employee ids the single-employee requests of this model carry
CalcEmployees == {1, 2, 3}

Employee(e) ==
  CASE e = 1 -> [is_active |-> TRUE,  commission_type |-> "percentage", commission_rate |-> 10]
    [] e = 2 -> [is_active |-> FALSE, commission_type |-> "percentage", commission_rate |-> 10]
    [] e = 4 -> [is_active |-> TRUE,  commission_type |-> "percentage", commission_rate |-> 10]
    [] e \in TieredEmployees ->
                [is_active |-> TRUE,  commission_type |-> "tiered",     commission_rate |-> 0]
    [] OTHER -> [is_active |-> TRUE,  commission_type |-> "1",          commission_rate |-> 10]

\* the user ids a request may carry as calculated_by/approved_by/paid_by
Users == {7}

\* line totals (cents) of the items employee 1 served in the period when
\* the behaviour starts, and the line total of an item the POS adds later
InitSales == << 1005 >>
NewSales == {250}

\* user.commission_tiers of an employee in the order of the query (Order
\* "min_sales_amount asc"): amounts in cents, rate in percent, max = << >>
\* for a NULL max_sales_amount (read as "").  Employee 5 has [0, 10.00] at
\* 5 and [10.00, inf) at 10; employee 6 has three bands.
Tiers(e) ==
  CASE e = 5 -> << [min |-> 0,    max |-> << 1000 >>, rate |-> 5],
                   [min |-> 1000, max |-> << >>,      rate |-> 10] >>
    [] e = 6 -> << [min |-> 0,    max |-> << 500 >>,  rate |-> 2],
                   [min |-> 500,  max |-> << 2000 >>, rate |-> 4],
                   [min |-> 2000, max |-> << >>,      rate |-> 7] >>
    [] OTHER -> << >>

\* the line totals (cents) a tiered employee may have served in the period
TierSalesInputs == { << >>, << 0 >>, << 300 >>, << 500 >>, << 1000 >>, << 1500 >>,
                     << 400, 600 >>, << 1999, 2 >>, << 2500, 0 >> }

\* pos.products.commission_eligible
CommissionEligible(product) == product \in {1, 3, 4}

\* the rows of the order_items table the sales query selects for an
\* employee: serving_employee_id is the employee, the product is
\* commission_eligible, and the row joins to its document (every document
\* of this model is dated in the period); no condition on the document's
\* type or paid status
OrderItemData(e) ==
  { k \in 1..Len(orderItems) :
      /\ orderItems[k].serving_employee_id = e
      /\ CommissionEligible(orderItems[k].product_id)
      /\ orderItems[k].document_id \in 1..Len(orders) }

\* the line totals of the selected rows, in table order
RECURSIVE LineTotals(_, _)
LineTotals(k, rows) ==
  IF k > Len(orderItems) THEN << >>
  ELSE (IF k \in rows THEN << orderItems[k].line_total >> ELSE << >>)
         \o LineTotals(k + 1, rows)

\* salesData for one employee and period: for employee 1 the items of
\* orders outside the order tables of this model (sales) and those the
\* query selects from the order tables
SalesData(e) ==
  IF e = 1 THEN sales \o LineTotals(1, OrderItemData(1))
  ELSE IF e = 4 THEN << 0 >>
  ELSE IF e \in TieredEmployees THEN tierSales[e]
  ELSE << >>

RECURSIVE SumSeq(_)
SumSeq(s) == IF s = << >> THEN 0 ELSE s[1] + SumSeq(Tail(s))

\* a decimal.Decimal that is not a whole number of cents: num/den cents
Dec(n, d) == [num |-> n, den |-> d]

\* decimal.StringFixed(2): round to two places, half away from zero
\* (operands here are never negative)
StringFixed2(x) == ((2 * x.num) + x.den) \div (2 * x.den)

\* the CommissionDetail rows calculateCommissionLogic builds, one per item
\* of the sales data: itemCommission = salesAmount * totalCommission /
\* totalSales (the sales total of this model is positive whenever there
\* is an item)
commissionDetails(e, totalCommission, totalSales) ==
  [i \in 1..Len(SalesData(e)) |->
     [order_item_id     |-> i,
      sales_amount      |-> SalesData(e)[i],
      commission_rate   |-> Employee(e).commission_rate,
      commission_amount |-> StringFixed2(Dec(SalesData(e)[i] * totalCommission.num,
                                             totalCommission.den * totalSales))]]

\* salesInTier that forgets the tier's maximum
salesInTierUncapped(tier, totalSales) ==
  IF totalSales > tier.min THEN totalSales - tier.min ELSE 0

\* salesInTier of one tier for the sales total: nothing unless totalSales
\* is greater than the tier's minimum; then up to the tier's maximum, or
\* without limit when the maximum is ""
salesInTier(tier, totalSales) ==
  IF totalSales > tier.min
    THEN IF tier.max # << >>
           THEN IF totalSales <= tier.max[1]
                  THEN totalSales - tier.min
                  ELSE tier.max[1] - tier.min
           ELSE totalSales - tier.min
    ELSE 0

\* breakdownDetails: one TierCommission per tier with salesInTier > 0, in
\* tier order (tierComm = salesInTier * tierRate / 100, kept as a fraction)
RECURSIVE breakdownDetails(_, _)
breakdownDetails(tiers, totalSales) ==
  IF tiers = << >> THEN << >>
  ELSE LET tier == tiers[1]
           inTier == salesInTier(tier, totalSales)
           rest == breakdownDetails(Tail(tiers), totalSales) IN
       IF inTier > 0
         THEN << [tier_min_amount   |-> tier.min,
                  tier_max_amount   |-> tier.max,
                  tier_rate         |-> tier.rate,
                  tier_sales_amount |-> inTier,
                  tier_commission   |-> Dec(inTier * tier.rate, 100)] >> \o rest
         ELSE rest

\* totalCommission of a tiered employee: the sum of tierComm over the tiers
RECURSIVE tieredCommission(_, _)
tieredCommission(tiers, totalSales) ==
  IF tiers = << >> THEN 0
  ELSE salesInTier(tiers[1], totalSales) * tiers[1].rate
         + tieredCommission(Tail(tiers), totalSales)

\* the detail loop divides by totalSales before it tests totalSales.IsZero():
\* with an item and a sales total of 0, decimal.Div panics
DetailLoopPanics(e) ==
  /\ Employee(e).commission_type \in {"percentage", "tiered", "fixed_amount"}
  /\ SalesData(e) # << >>
  /\ SumSeq(SalesData(e)) = 0

\* calculateCommissionLogic: the error it returns, or the totals and
\* details it computes; "panic"
\* is no return: the goroutine panics and nothing recovers it
calculateCommissionLogic(e) ==
  IF ~(e \in Employees /\ Employee(e).is_active)
    THEN [err |-> "not_found"]
  ELSE IF DetailLoopPanics(e)
    THEN [err |-> "panic"]
  ELSE LET emp == Employee(e)
           totalSales == SumSeq(SalesData(e)) IN
       CASE emp.commission_type = "percentage" ->
              [err |-> "",
               totalSales      |-> Dec(totalSales, 1),
               totalCommission |-> Dec(totalSales * emp.commission_rate, 100),
               baseCommission  |-> Dec(totalSales * emp.commission_rate, 100),
               bonusCommission |-> Dec(0, 1),
               tierCommissions |-> << >>,
               details |-> commissionDetails(e,
                             Dec(totalSales * emp.commission_rate, 100), totalSales)]
         [] emp.commission_type = "tiered" ->
              [err |-> "",
               totalSales      |-> Dec(totalSales, 1),
               totalCommission |-> Dec(tieredCommission(Tiers(e), totalSales), 100),
               baseCommission  |-> Dec(tieredCommission(Tiers(e), totalSales), 100),
               bonusCommission |-> Dec(0, 1),
               tierCommissions |-> breakdownDetails(Tiers(e), totalSales),
               details |-> commissionDetails(e,
                             Dec(tieredCommission(Tiers(e), totalSales), 100),
                             totalSales)]
         [] emp.commission_type = "fixed_amount" ->
              [err |-> "",
               totalSales      |-> Dec(totalSales, 1),
               totalCommission |-> Dec(emp.commission_rate * 100 * Len(SalesData(e)), 1),
               baseCommission  |-> Dec(emp.commission_rate * 100 * Len(SalesData(e)), 1),
               bonusCommission |-> Dec(0, 1),
               tierCommissions |-> << >>,
               details |-> commissionDetails(e,
                             Dec(emp.commission_rate * 100 * Len(SalesData(e)), 1),
                             totalSales)]
         [] OTHER -> [err |-> "precondition_failed"]

\* the decimal(18,2) NOT NULL columns of CommissionCalculation
DecimalColumns == {"total_sales", "base_commission", "bonus_commission",
                   "total_commission"}

\* the columns the struct literal of CalculateCommission assigns, and
\* those the literal of BulkCalculateCommissions assigns
CalculateFields == {"employee_id", "total_sales", "base_commission",
                    "total_commission", "status", "calculated_by"}
BulkCalculateFields == CalculateFields \cup {"bonus_commission"}

\* tx.Create(&calculationModel): a decimal column whose Go string was left
\* "" is no numeric input and PostgreSQL rejects the INSERT
CreateAccepted(fields) == DecimalColumns \subseteq fields

\* the row both calculate handlers build from a calculationResult
CalculationModel(e, result, user) ==
  [employee_id      |-> e,
   total_sales      |-> StringFixed2(result.totalSales),
   base_commission  |-> StringFixed2(result.baseCommission),
   bonus_commission |-> StringFixed2(result.bonusCommission),
   total_commission |-> StringFixed2(result.totalCommission),
   status           |-> "CALCULATED",
   calculated_by    |-> user,
   approved_by      |-> 0,
   notes            |-> << >>,
   details          |-> result.details]

\* PaymentRow with the amount taken from the wrong column
PaymentRowOfSales(id, calculation, user) ==
  [calculation_id |-> id,
   employee_id    |-> calculation.employee_id,
   payment_amount |-> calculation.total_sales,
   paid_by        |-> user]

\* the CommissionPayment PayCommission builds from the locked row
PaymentRow(id, calculation, user) ==
  [calculation_id |-> id,
   employee_id    |-> calculation.employee_id,
   payment_amount |-> calculation.total_commission,
   paid_by        |-> user]

\* the commission tables a behaviour may start from: the row a bulk
\* calculation made for employee 1; the same row once approved; the same
\* row once paid, with its payment
InitCommTables ==
  LET c == CalculationModel(1, [totalSales |-> Dec(1005, 1),
                                baseCommission |-> Dec(10050, 100),
                                bonusCommission |-> Dec(0, 1),
                                totalCommission |-> Dec(10050, 100),
                                details |-> << [order_item_id |-> 1,
                                                sales_amount |-> 1005,
                                                commission_rate |-> 10,
                                                commission_amount |-> 101] >>], 7)
      a == [c EXCEPT !.status = "APPROVED", !.approved_by = 7] IN
  { [calcs |-> << c >>, payments |-> << >>],
    [calcs |-> << a >>, payments |-> << >>],
    [calcs |-> << [a EXCEPT !.status = "PAID"] >>,
     payments |-> << [calculation_id |-> 1, employee_id |-> 1,
                      payment_amount |-> a.total_commission, paid_by |-> 7] >>] }

CalcIds == 1..MaxCalcs

\* ------------------------------------------------------------------------
\* Commissions: helpers
\* ------------------------------------------------------------------------
CommIdle(p) ==
  /\ cpc[p] = "idle" /\ cstarted < MaxCommOps
  \* a panic in a handler goroutine ends the process: nothing is served after
  /\ \A r \in Procs : cres[r] # "panic"

\* First(&calculation, id): the row exists
CalcExists(id) == id \in 1..Len(calcs)

\* RowLockFree for a SELECT without the locking clause
RowLockIgnored(id) == TRUE

\* clause.Locking{Strength: "UPDATE"} and UPDATE both wait until no other
\* transaction holds the row
RowLockFree(id) == rowLock[id] = 0

\* the handler starts serving a request (seq numbers the requests in the
\* order in which they start)
CommStart(p, req) ==
  /\ creq' = [creq EXCEPT ![p] = [req EXCEPT !.seq = cstarted + 1]]
  /\ cstarted' = cstarted + 1

\* the handler returns without having changed the database
CommFail(p, r) ==
  /\ cpc' = [cpc EXCEPT ![p] = "idle"]
  /\ cres' = [cres EXCEPT ![p] = r]
  /\ clocal' = [clocal EXCEPT ![p] = NoCalc]
  /\ UNCHANGED << calcs, payments >>

\* SELECT ... FOR UPDATE succeeded and the status check passed: the handler
\* holds the row and a copy of it
CommLocked(p, id) ==
  /\ rowLock' = [rowLock EXCEPT ![id] = p]
  /\ cpc' = [cpc EXCEPT ![p] = "locked"]
  /\ clocal' = [clocal EXCEPT ![p] = calcs[id]]
  /\ UNCHANGED << calcs, payments, cres >>

\* InvalidateCommissionCaches: Del of commission_calculation:<id> (no
\* other key is deleted)
InvalidateCommissionCaches(id) == [cache EXCEPT !.calc[id] = << >>]

\* COMMIT: the handler's writes become visible and the row is released;
\* the handler then invalidates the calculation's cache key and answers
CommCommit(p, id) ==
  /\ cache' = InvalidateCommissionCaches(id)
  /\ rowLock' = [rowLock EXCEPT ![id] = 0]
  /\ cpc' = [cpc EXCEPT ![p] = "idle"]
  /\ cres' = [cres EXCEPT ![p] = "ok"]
  /\ clocal' = [clocal EXCEPT ![p] = NoCalc]

CommInit ==
  /\ sales = InitSales
  /\ tierSales = NoTierSales
  /\ cdeleted = NoDeleted
  /\ \E t \in InitCommTables : calcs0 = t.calcs /\ payments = t.payments
  /\ calcs = calcs0
  /\ rowLock = [i \in CalcIds |-> 0]
  /\ cpc = [p \in Procs |-> "idle"]
  /\ creq = [p \in Procs |-> NoCommReq]
  /\ clocal = [p \in Procs |-> NoCalc]
  /\ cres = [p \in Procs |-> "none"]
  /\ cstarted = 0
  /\ cfault = FALSE
  /\ cache = NoCache /\ bulk = NoBulk
  \* the inventory tables are empty and its handlers idle
  /\ paging = NoPaging
  /\ stocks0 = << >> /\ stocks = << >> /\ movements = << >>
  /\ ipc = [p \in Procs |-> "idle"]
  /\ ireq = [p \in Procs |-> NoInvReq]
  /\ ilocal = [p \in Procs |-> NoInvLocal]
  /\ ires = [p \in Procs |-> "none"]
  /\ istarted = 0
  \* the POS tables are empty and its handlers idle
  /\ orders0 = << >> /\ orders = << >> /\ orderItems = << >>
  /\ carts = << >> /\ events = << >>
  /\ ppc = [p \in Procs |-> "idle"]
  /\ preq = [p \in Procs |-> NoPosReq]
  /\ plocal = [p \in Procs |-> NoPosLocal]
  /\ pres = [p \in Procs |-> "none"]
  /\ pstarted = 0

\* ------------------------------------------------------------------------
\* Commissions: handlers
\* ------------------------------------------------------------------------
\* CalculateCommission: compute, and with save_calculation insert the row
\* (one INSERT in its own transaction)
CalculateCommission(p, e, save, user) ==
  /\ CommIdle(p)
  /\ CommStart(p, [NoCommReq EXCEPT !.op = "Calculate", !.employee = e,
                                    !.save = save, !.user = user])
  /\ LET result == calculateCommissionLogic(e) IN
     IF result.err # ""
       THEN CommFail(p, result.err)
     ELSE IF ~save
       THEN /\ cpc' = [cpc EXCEPT ![p] = "idle"]
            /\ cres' = [cres EXCEPT ![p] = "ok"]
            /\ clocal' = [clocal EXCEPT ![p] = NoCalc]
            /\ UNCHANGED << calcs, payments >>
     ELSE IF ~CreateAccepted(CalculateFields)
       THEN CommFail(p, "internal")
     ELSE /\ Len(calcs) < MaxCalcs
          /\ calcs' = Append(calcs, CalculationModel(e, result, user))
          /\ cpc' = [cpc EXCEPT ![p] = "idle"]
          /\ cres' = [cres EXCEPT ![p] = "ok"]
          /\ clocal' = [clocal EXCEPT ![p] = NoCalc]
          /\ UNCHANGED payments
  /\ UNCHANGED << invVars, posVars, cache, bulk, sales, calcs0, tierSales, cdeleted, rowLock, cfault >>

\* BulkCalculateCommissions: the goroutine of one employee id
BulkCalculateCommissions(p, e, user) ==
  /\ CommIdle(p)
  /\ CommStart(p, [NoCommReq EXCEPT !.op = "BulkCalculate", !.employee = e,
                                    !.save = TRUE, !.user = user])
  /\ LET result == calculateCommissionLogic(e) IN
     IF result.err # ""
       THEN CommFail(p, result.err)
     ELSE IF ~CreateAccepted(BulkCalculateFields)
       THEN CommFail(p, "internal")
     ELSE /\ Len(calcs) < MaxCalcs
          /\ calcs' = Append(calcs, CalculationModel(e, result, user))
          /\ cpc' = [cpc EXCEPT ![p] = "idle"]
          /\ cres' = [cres EXCEPT ![p] = "ok"]
          /\ clocal' = [clocal EXCEPT ![p] = NoCalc]
          /\ UNCHANGED payments
  /\ UNCHANGED << invVars, posVars, cache, bulk, sales, calcs0, tierSales, cdeleted, rowLock, cfault >>

\* RecalculateCommission, first part: plain First(&existingCalc, id) and
\* calculateCommissionLogic; the new totals are kept in `result`
RecalculateCommissionRead(p, id, user, notes) ==
  /\ CommIdle(p)
  /\ CommStart(p, [NoCommReq EXCEPT !.op = "Recalculate", !.id = id,
                                    !.user = user, !.notes = notes])
  /\ IF ~CalcExists(id)
       THEN CommFail(p, "not_found")
     ELSE LET result == calculateCommissionLogic(calcs[id].employee_id) IN
       IF result.err # ""
         THEN CommFail(p, result.err)
         ELSE /\ cpc' = [cpc EXCEPT ![p] = "delete"]
              /\ clocal' = [clocal EXCEPT ![p] =
                              CalculationModel(calcs[id].employee_id, result, user)]
              /\ UNCHANGED << calcs, payments, cres >>
  /\ UNCHANGED << invVars, posVars, cache, bulk, sales, calcs0, tierSales, cdeleted, rowLock, cfault >>

\* handler r's DELETE waits for CommissionDetail rows that the DELETE of
\* handler q's open transaction has removed
DeleteWaits(r, q) ==
  /\ r # q
  /\ cpc[r] = "deleteWait" /\ cpc[q] = "write"
  /\ creq[q].op = "Recalculate" /\ creq[r].id = creq[q].id

\* the number of CommissionDetail rows of calculation id that the open
\* transactions of the other handlers have removed and hold locked
DetailsLocked(p, id) ==
  IF \E q \in Procs \ {p} :
       cpc[q] \in {"write", "deleteWait"} /\ creq[q].op = "Recalculate" /\ creq[q].id = id
    THEN LET q == CHOOSE q \in Procs \ {p} :
                    cpc[q] \in {"write", "deleteWait"}
                      /\ creq[q].op = "Recalculate" /\ creq[q].id = id IN
         cdeleted[q]
    ELSE 0

\* RecalculateCommission: BEGIN and the DELETE of the old details.  The
\* statement (READ COMMITTED) sees the rows committed when it starts: it
\* removes those no other transaction has removed, and waits for the
\* others until that transaction ends; rows another transaction has
\* inserted and not committed are not seen
RecalculateCommissionDelete(p) ==
  /\ cpc[p] = "delete" /\ creq[p].op = "Recalculate"
  /\ cdeleted' = [cdeleted EXCEPT ![p] =
                    Len(calcs[creq[p].id].details) - DetailsLocked(p, creq[p].id)]
  /\ cpc' = [cpc EXCEPT ![p] =
               IF DetailsLocked(p, creq[p].id) > 0 THEN "deleteWait" ELSE "write"]
  /\ UNCHANGED << invVars, posVars, cache, bulk, sales, calcs0, tierSales, calcs,
                  payments, rowLock, creq, clocal, cres, cstarted, cfault >>

\* the positions of the handlers when handler p's transaction has ended:
\* a DELETE that waited for it goes on
TransactionEnded(p) ==
  [r \in Procs |-> IF r = p THEN "idle"
                   ELSE IF DeleteWaits(r, p) THEN "write" ELSE cpc[r]]

\* the CommissionDetail rows left of `details` when the n oldest are removed
DetailsKept(details, n) == SubSeq(details, n + 1, Len(details))

\* RecalculatedRow without the Delete of the old details
RecalculatedRowKeepsDetails(row, result, notes) ==
  [row EXCEPT !.total_sales      = result.total_sales,
              !.total_commission = result.total_commission,
              !.base_commission  = result.base_commission,
              !.bonus_commission = result.bonus_commission,
              !.status           = "CALCULATED",
              !.calculated_by    = result.calculated_by,
              !.notes            = IF notes = "" THEN << >> ELSE << notes >>,
              !.approved_by      = 0,
              !.details          = row.details \o result.details]

\* the row RecalculateCommission's transaction leaves: the old details
\* deleted, the header after Updates(map), the new details created
RecalculatedRow(row, result, notes) ==
  [row EXCEPT !.total_sales      = result.total_sales,
              !.total_commission = result.total_commission,
              !.base_commission  = result.base_commission,
              !.bonus_commission = result.bonus_commission,
              !.status           = "CALCULATED",
              !.calculated_by    = result.calculated_by,
              !.notes            = IF notes = "" THEN << >> ELSE << notes >>,
              !.approved_by      = 0,
              !.details          = result.details]

\* RecalculateCommission, last part: the UPDATE of the header (it waits
\* for the row lock), the Create of the new details and COMMIT.  The rows
\* the DELETE removed are gone; the rows other transactions committed
\* since the DELETE started stay
RecalculateCommissionWrite(p) ==
  /\ cpc[p] = "write" /\ creq[p].op = "Recalculate"
  /\ RowLockFree(creq[p].id)
  /\ calcs' = [calcs EXCEPT ![creq[p].id] =
                 [RecalculatedRow(calcs[creq[p].id], clocal[p], creq[p].notes)
                    EXCEPT !.details =
                      DetailsKept(calcs[creq[p].id].details, cdeleted[p]) \o @]]
  /\ cache' = InvalidateCommissionCaches(creq[p].id)
  /\ cpc' = TransactionEnded(p)
  /\ cdeleted' = [cdeleted EXCEPT ![p] = 0]
  /\ cres' = [cres EXCEPT ![p] = "ok"]
  /\ clocal' = [clocal EXCEPT ![p] = NoCalc]
  /\ UNCHANGED << invVars, posVars, bulk, sales, calcs0, tierSales, payments, rowLock, creq, cstarted, cfault >>

\* StatusAllows with the status check left out
StatusUnchecked(op, status) == TRUE

\* the status check that follows every SELECT ... FOR UPDATE
StatusAllows(op, status) ==
  IF op = "Pay" THEN status = "APPROVED" ELSE status = "CALCULATED"

\* the error a failed status check returns: a gRPC FailedPrecondition,
\* in the bulk worker an "invalid status" entry of the errors list
StatusError(op) ==
  IF op = "BulkApprove" THEN "invalid_status" ELSE "precondition_failed"

\* ApproveCommission / RejectCommission / one worker of
\* BulkApproveCommissions / PayCommission, up to the status check:
\* BEGIN, SELECT ... FOR UPDATE, check
LockAndCheck(p, op, id, user, notes) ==
  /\ CalcExists(id) => RowLockFree(id)
  /\ CommStart(p, [NoCommReq EXCEPT !.op = op, !.id = id, !.user = user,
                                    !.notes = notes])
  /\ IF ~CalcExists(id)
       THEN CommFail(p, "not_found") /\ UNCHANGED rowLock
     ELSE IF ~StatusAllows(op, calcs[id].status)
       THEN CommFail(p, StatusError(op)) /\ UNCHANGED rowLock
     ELSE CommLocked(p, id)
  /\ UNCHANGED << invVars, posVars, cache, bulk, sales, calcs0, tierSales, cdeleted, cfault >>

ApproveCommissionLock(p, id, user, notes) ==
  /\ CommIdle(p)
  /\ LockAndCheck(p, "Approve", id, user, notes)

RejectCommissionLock(p, id, user) ==
  /\ CommIdle(p)
  /\ LockAndCheck(p, "Reject", id, user, "reason")

BulkApproveCommissionsLock(p, id, user, notes) ==
  /\ CommIdle(p)
  /\ LockAndCheck(p, "BulkApprove", id, user, notes)

PayCommissionLock(p, id, user) ==
  /\ CommIdle(p)
  /\ LockAndCheck(p, "Pay", id, user, "")

\* the row ApproveCommission and the bulk worker Save
ApprovedRow(calculation, user, notes) ==
  [calculation EXCEPT !.status = "APPROVED",
                      !.approved_by = user,
                      !.notes = IF notes # "" THEN << notes >> ELSE @]

\* ApproveCommission, rest of the transaction: Save and COMMIT
ApproveCommissionSave(p) ==
  /\ cpc[p] = "locked" /\ creq[p].op = "Approve"
  /\ calcs' = [calcs EXCEPT ![creq[p].id] =
                 ApprovedRow(clocal[p], creq[p].user, creq[p].notes)]
  /\ CommCommit(p, creq[p].id)
  /\ UNCHANGED << invVars, posVars, bulk, sales, calcs0, tierSales, cdeleted, payments, creq, cstarted, cfault >>

\* BulkApproveCommissions worker, rest of the transaction
BulkApproveCommissionsSave(p) ==
  /\ cpc[p] = "locked" /\ creq[p].op = "BulkApprove"
  /\ calcs' = [calcs EXCEPT ![creq[p].id] =
                 ApprovedRow(clocal[p], creq[p].user, creq[p].notes)]
  /\ CommCommit(p, creq[p].id)
  /\ UNCHANGED << invVars, posVars, bulk, sales, calcs0, tierSales, cdeleted, payments, creq, cstarted, cfault >>

\* the row RejectCommission leaves after its two Saves
RejectedRow(calculation, reason) ==
  [calculation EXCEPT !.status = "DRAFT",
                      !.approved_by = 0,
                      !.notes = Append(@, "REJECTED")]

\* RejectCommission, rest of the transaction: Save, Save and COMMIT
RejectCommissionSave(p) ==
  /\ cpc[p] = "locked" /\ creq[p].op = "Reject"
  /\ calcs' = [calcs EXCEPT ![creq[p].id] = RejectedRow(clocal[p], creq[p].notes)]
  /\ CommCommit(p, creq[p].id)
  /\ UNCHANGED << invVars, posVars, bulk, sales, calcs0, tierSales, cdeleted, payments, creq, cstarted, cfault >>

\* the unique index on CommissionPayment.CommissionCalculationID
PaymentExists(id) ==
  \E i \in 1..Len(payments) : payments[i].calculation_id = id

\* PayCommission, rest of the transaction: Create(&payment), Save, COMMIT;
\* a duplicate key fails the Create and the transaction rolls back
PayCommissionSave(p) ==
  /\ cpc[p] = "locked" /\ creq[p].op = "Pay"
  /\ IF PaymentExists(creq[p].id)
       THEN /\ CommFail(p, "internal")
            /\ rowLock' = [rowLock EXCEPT ![creq[p].id] = 0]
            /\ UNCHANGED cache
       ELSE /\ payments' = Append(payments,
                                  PaymentRow(creq[p].id, clocal[p], creq[p].user))
            /\ calcs' = [calcs EXCEPT ![creq[p].id] = [clocal[p] EXCEPT !.status = "PAID"]]
            /\ CommCommit(p, creq[p].id)
  /\ UNCHANGED << invVars, posVars, bulk, sales, calcs0, tierSales, cdeleted, creq, cstarted, cfault >>

\* any statement of a transaction may fail (connection lost, timeout):
\* the transaction rolls back and the handler answers Internal
CommDbError(p) ==
  /\ cpc[p] \in {"locked", "delete", "deleteWait", "write"}
  /\ cpc' = TransactionEnded(p)
  \* the rows a rolled back DELETE had removed are there again: the DELETE
  \* that waited for them removes them
  /\ cdeleted' = [r \in Procs |->
                    IF r = p THEN 0
                    ELSE IF DeleteWaits(r, p) THEN cdeleted[r] + cdeleted[p]
                    ELSE cdeleted[r]]
  /\ cres' = [cres EXCEPT ![p] = "internal"]
  /\ clocal' = [clocal EXCEPT ![p] = NoCalc]
  /\ UNCHANGED << calcs, payments >>
  /\ rowLock' = [i \in CalcIds |-> IF rowLock[i] = p /\ cpc[p] = "locked"
                                     THEN 0 ELSE rowLock[i]]
  /\ cfault' = TRUE
  /\ UNCHANGED << invVars, posVars, cache, bulk, sales, calcs0, tierSales, creq, cstarted >>

\* the POS completes an order whose item employee 1 served in the period
AddSale(amount) ==
  /\ Len(sales) < Len(InitSales) + MaxNewSales
  /\ sales' = Append(sales, amount)
  /\ UNCHANGED << invVars, posVars, cache, bulk, calcs0, tierSales, cdeleted, calcs, payments, rowLock, cpc, creq, clocal,
                  cres, cstarted, cfault >>

CommNext ==
  \/ \E p \in Procs, e \in CalcEmployees, save \in BOOLEAN, u \in Users :
       CalculateCommission(p, e, save, u)
  \/ \E p \in Procs, e \in CalcEmployees, u \in Users :
       BulkCalculateCommissions(p, e, u)
  \/ \E p \in Procs, id \in CalcIds, u \in Users :
       RecalculateCommissionRead(p, id, u, "")
  \/ \E p \in Procs : RecalculateCommissionDelete(p)
  \/ \E p \in Procs : RecalculateCommissionWrite(p)
  \/ \E p \in Procs, id \in CalcIds, u \in Users, n \in {"", "approved"} :
       ApproveCommissionLock(p, id, u, n)
  \/ \E p \in Procs : ApproveCommissionSave(p)
  \/ \E p \in Procs, id \in CalcIds, u \in Users : RejectCommissionLock(p, id, u)
  \/ \E p \in Procs : RejectCommissionSave(p)
  \/ \E p \in Procs, id \in CalcIds, u \in Users :
       BulkApproveCommissionsLock(p, id, u, "approved")
  \/ \E p \in Procs : BulkApproveCommissionsSave(p)
  \/ \E p \in Procs, id \in CalcIds, u \in Users : PayCommissionLock(p, id, u)
  \/ \E p \in Procs : PayCommissionSave(p)
  \/ \E p \in Procs : CommDbError(p)
  \/ \E a \in NewSales : AddSale(a)

\* ------------------------------------------------------------------------
\* Commissions: cached reads
\* ------------------------------------------------------------------------
\* GetCommissionCalculation up to the database read: a hit of
\* commission_calculation:<id> is the answer; after a miss the row is read
\* with First
GetCommissionCalculationRead(p, id) ==
  /\ CommIdle(p)
  /\ CommStart(p, [NoCommReq EXCEPT !.op = "Get", !.id = id])
  /\ IF cache.calc[id] # << >>
       THEN /\ cpc' = [cpc EXCEPT ![p] = "idle"]
            /\ cres' = [cres EXCEPT ![p] = "ok"]
            /\ clocal' = [clocal EXCEPT ![p] = cache.calc[id][1]]
            /\ UNCHANGED << calcs, payments >>
     ELSE IF ~CalcExists(id)
       THEN CommFail(p, "not_found")
     ELSE /\ cpc' = [cpc EXCEPT ![p] = "cacheSet"]
          /\ clocal' = [clocal EXCEPT ![p] = calcs[id]]
          /\ UNCHANGED << calcs, payments, cres >>
  /\ UNCHANGED << invVars, posVars, cache, bulk, sales, calcs0, tierSales, cdeleted, rowLock, cfault >>

\* GetCommissionCalculation, rest: Set of the row that was read (24 h) and
\* the answer, which stays in clocal
GetCommissionCalculationSet(p) ==
  /\ cpc[p] = "cacheSet" /\ creq[p].op = "Get"
  /\ cache' = [cache EXCEPT !.calc[creq[p].id] = << clocal[p] >>]
  /\ cpc' = [cpc EXCEPT ![p] = "idle"]
  /\ cres' = [cres EXCEPT ![p] = "ok"]
  /\ UNCHANGED << invVars, posVars, bulk, sales, calcs0, tierSales, cdeleted, calcs, payments, rowLock,
                  creq, clocal, cstarted, cfault >>

RECURSIVE SumRows(_, _, _)
SumRows(rows, ids, column) ==
  IF ids = {} THEN 0
  ELSE LET i == CHOOSE j \in ids : TRUE IN
       column[i] + SumRows(rows, ids \ {i}, column)

\* the CommissionSummary GetCommissionSummary computes for an employee
\* (every calculation of the model lies in the requested date range; the
\* recent calculations are listed by id)
CommissionSummary(e) ==
  LET ids == {i \in 1..Len(calcs) : calcs[i].employee_id = e} IN
  [employee_id  |-> e,
   total_sales  |-> SumRows(calcs, ids, [i \in ids |-> calcs[i].total_sales]),
   total_earned |-> SumRows(calcs, ids, [i \in ids |-> calcs[i].total_commission]),
   total_paid   |-> SumRows(calcs, ids,
                            [i \in ids |-> IF calcs[i].status = "PAID"
                                             THEN calcs[i].total_commission ELSE 0]),
   calculation_count   |-> Cardinality(ids),
   recent_calculations |-> [i \in ids |-> calcs[i]]]

\* GetCommissionSummary up to its database reads.  The cached value is
\* used only `if err != nil`, that is never on a hit: the summary is
\* always computed again
GetCommissionSummaryRead(p, e) ==
  /\ CommIdle(p)
  /\ CommStart(p, [NoCommReq EXCEPT !.op = "Summary", !.employee = e])
  /\ cpc' = [cpc EXCEPT ![p] = "cacheSet"]
  /\ clocal' = [clocal EXCEPT ![p] = CommissionSummary(e)]
  /\ UNCHANGED << invVars, posVars, cache, bulk, sales, calcs0, tierSales, cdeleted, calcs, payments,
                  rowLock, cres, cfault >>

\* GetCommissionSummary, rest: Set of commission_summary:<employee>:
\* <start>:<end> (2 h) and the answer
GetCommissionSummarySet(p) ==
  /\ cpc[p] = "cacheSet" /\ creq[p].op = "Summary"
  /\ cache' = [cache EXCEPT !.summary[creq[p].employee] = << clocal[p] >>]
  /\ cpc' = [cpc EXCEPT ![p] = "idle"]
  /\ cres' = [cres EXCEPT ![p] = "ok"]
  /\ UNCHANGED << invVars, posVars, bulk, sales, calcs0, tierSales, cdeleted, calcs, payments, rowLock,
                  creq, clocal, cstarted, cfault >>

CacheNext ==
  \/ \E p \in Procs, id \in CalcIds : GetCommissionCalculationRead(p, id)
  \/ \E p \in Procs : GetCommissionCalculationSet(p)
  \/ \E p \in Procs, e \in CalcEmployees : GetCommissionSummaryRead(p, e)
  \/ \E p \in Procs : GetCommissionSummarySet(p)
  \/ \E p \in Procs, id \in CalcIds, u \in Users :
       RecalculateCommissionRead(p, id, u, "")
  \/ \E p \in Procs : RecalculateCommissionDelete(p)
  \/ \E p \in Procs : RecalculateCommissionWrite(p)
  \/ \E p \in Procs, id \in CalcIds, u \in Users, n \in {"", "approved"} :
       ApproveCommissionLock(p, id, u, n)
  \/ \E p \in Procs : ApproveCommissionSave(p)
  \/ \E p \in Procs, id \in CalcIds, u \in Users : RejectCommissionLock(p, id, u)
  \/ \E p \in Procs : RejectCommissionSave(p)
  \/ \E p \in Procs, id \in CalcIds, u \in Users : PayCommissionLock(p, id, u)
  \/ \E p \in Procs : PayCommissionSave(p)
  \/ \E p \in Procs : CommDbError(p)
  \/ \E a \in NewSales : AddSale(a)

\* ------------------------------------------------------------------------
\* Commissions: bulk requests
\* ------------------------------------------------------------------------
\* the id lists a bulk request may carry (goroutine k serves ids[k])
BulkEmployeeIds ==
  {<< >>} \cup {<< e >> : e \in Employees}
          \cup {<< e, f >> : e \in Employees, f \in Employees}
BulkCalculationIds ==
  {<< >>} \cup {<< i >> : i \in CalcIds} \cup {<< i, j >> : i \in CalcIds, j \in CalcIds}

\* the response of a bulk request
BulkResponse(err, successes, errors) ==
  [err |-> err, success_count |-> Len(successes), error_count |-> Len(errors)]

\* BulkCalculateCommissions / BulkApproveCommissions up to the loop that
\* starts the goroutines: an empty id list is an InvalidArgument
BulkStart(op, ids, user) ==
  /\ bulk.op = "none"
  /\ bulk' = [bulk EXCEPT !.op = op, !.inputs = ids, !.user = user,
                          !.answer = IF ids = << >>
                                       THEN << BulkResponse("invalid_argument", << >>, << >>) >>
                                       ELSE << >>]
  /\ UNCHANGED << invVars, posVars, sales, calcs0, tierSales, cdeleted, calcs, payments, rowLock, cpc,
                  creq, clocal, cres, cstarted, cfault, cache >>

\* goroutine k of the request has not run yet
BulkWorkerWaits(op, k) ==
  /\ bulk.op = op /\ ~bulk.crashed
  /\ k \in 1..Len(bulk.inputs)
  /\ creq[k].seq = 0

\* goroutine k of BulkCalculateCommissions up to its return (the mutex
\* section that records the outcome is BulkCollect)
BulkCalculateWorker(k) ==
  /\ BulkWorkerWaits("BulkCalculate", k)
  /\ calculateCommissionLogic(bulk.inputs[k]).err # "panic"
  /\ BulkCalculateCommissions(k, bulk.inputs[k], bulk.user)

\* goroutine k of BulkCalculateCommissions panics in
\* calculateCommissionLogic: the server process ends, with it every other
\* goroutine and the request, which is never answered
BulkCalculatePanics(k) ==
  /\ BulkWorkerWaits("BulkCalculate", k)
  /\ calculateCommissionLogic(bulk.inputs[k]).err = "panic"
  /\ bulk' = [bulk EXCEPT !.crashed = TRUE]
  /\ UNCHANGED << invVars, posVars, sales, calcs0, tierSales, cdeleted, calcs, payments, rowLock, cpc,
                  creq, clocal, cres, cstarted, cfault, cache >>

\* goroutine k of BulkApproveCommissions: its transaction in two parts
BulkApproveWorkerLock(k) ==
  /\ BulkWorkerWaits("BulkApprove", k)
  /\ BulkApproveCommissionsLock(k, bulk.inputs[k], bulk.user, "approved")

BulkApproveWorkerSave(k) ==
  /\ ~bulk.crashed
  /\ BulkApproveCommissionsSave(k)

\* a statement of a goroutine's transaction fails
BulkDbError(k) ==
  /\ ~bulk.crashed
  /\ CommDbError(k)

\* goroutine k has returned from its work and has not recorded its outcome
BulkWorkerReturned(k) ==
  /\ k \in 1..Len(bulk.inputs)
  /\ creq[k].seq > 0 /\ cpc[k] = "idle"
  /\ k \notin bulk.collected

\* the mutex section of goroutine k: mu.Lock(), append to the slice of
\* its outcome, mu.Unlock(), then wg.Done()
BulkCollect(k) ==
  /\ ~bulk.crashed
  /\ BulkWorkerReturned(k)
  /\ bulk' = [bulk EXCEPT !.collected = @ \cup {k},
                          !.successes = IF cres[k] = "ok"
                                          THEN Append(@, [worker |-> k, id |-> bulk.inputs[k]])
                                          ELSE @,
                          !.errors = IF cres[k] = "ok"
                                       THEN @
                                       ELSE Append(@, [worker |-> k, id |-> bulk.inputs[k],
                                                        err |-> cres[k]])]
  /\ UNCHANGED << invVars, posVars, sales, calcs0, tierSales, cdeleted, calcs, payments, rowLock, cpc,
                  creq, clocal, cres, cstarted, cfault, cache >>

\* wg.Wait() returns and the handler answers with the two slices
BulkAnswer ==
  /\ bulk.op \in {"BulkCalculate", "BulkApprove"} /\ ~bulk.crashed
  /\ bulk.answer = << >>
  /\ bulk.collected = 1..Len(bulk.inputs)
  /\ bulk' = [bulk EXCEPT !.answer = << BulkResponse("", bulk.successes, bulk.errors) >>]
  /\ UNCHANGED << invVars, posVars, sales, calcs0, tierSales, cdeleted, calcs, payments, rowLock, cpc,
                  creq, clocal, cres, cstarted, cfault, cache >>

\* the commission tables a bulk request may find: those of InitCommTables,
\* or no calculation yet
BulkInitTables == InitCommTables \cup {[calcs |-> << >>, payments |-> << >>]}

BulkInit ==
  /\ sales = InitSales
  /\ tierSales = NoTierSales
  /\ cdeleted = NoDeleted
  /\ \E t \in BulkInitTables : calcs0 = t.calcs /\ payments = t.payments
  /\ calcs = calcs0
  /\ rowLock = [i \in CalcIds |-> 0]
  /\ cpc = [p \in Procs |-> "idle"]
  /\ creq = [p \in Procs |-> NoCommReq]
  /\ clocal = [p \in Procs |-> NoCalc]
  /\ cres = [p \in Procs |-> "none"]
  /\ cstarted = 0
  /\ cfault = FALSE
  /\ cache = NoCache /\ bulk = NoBulk
  \* the inventory tables are empty and its handlers idle
  /\ paging = NoPaging
  /\ stocks0 = << >> /\ stocks = << >> /\ movements = << >>
  /\ ipc = [p \in Procs |-> "idle"]
  /\ ireq = [p \in Procs |-> NoInvReq]
  /\ ilocal = [p \in Procs |-> NoInvLocal]
  /\ ires = [p \in Procs |-> "none"]
  /\ istarted = 0
  \* the POS tables are empty and its handlers idle
  /\ orders0 = << >> /\ orders = << >> /\ orderItems = << >>
  /\ carts = << >> /\ events = << >>
  /\ ppc = [p \in Procs |-> "idle"]
  /\ preq = [p \in Procs |-> NoPosReq]
  /\ plocal = [p \in Procs |-> NoPosLocal]
  /\ pres = [p \in Procs |-> "none"]
  /\ pstarted = 0

\* the commission service with tiered employees: no calculation yet, each
\* tiered employee has served some items in the period
CalculateInit ==
  /\ sales = InitSales
  /\ tierSales \in [TieredEmployees -> TierSalesInputs]
  /\ cdeleted = NoDeleted
  /\ calcs0 = << >> /\ payments = << >>
  /\ calcs = calcs0
  /\ rowLock = [i \in CalcIds |-> 0]
  /\ cpc = [p \in Procs |-> "idle"]
  /\ creq = [p \in Procs |-> NoCommReq]
  /\ clocal = [p \in Procs |-> NoCalc]
  /\ cres = [p \in Procs |-> "none"]
  /\ cstarted = 0
  /\ cfault = FALSE
  /\ cache = NoCache /\ bulk = NoBulk
  \* the inventory tables are empty and its handlers idle
  /\ paging = NoPaging
  /\ stocks0 = << >> /\ stocks = << >> /\ movements = << >>
  /\ ipc = [p \in Procs |-> "idle"]
  /\ ireq = [p \in Procs |-> NoInvReq]
  /\ ilocal = [p \in Procs |-> NoInvLocal]
  /\ ires = [p \in Procs |-> "none"]
  /\ istarted = 0
  \* the POS tables are empty and its handlers idle
  /\ orders0 = << >> /\ orders = << >> /\ orderItems = << >>
  /\ carts = << >> /\ events = << >>
  /\ ppc = [p \in Procs |-> "idle"]
  /\ preq = [p \in Procs |-> NoPosReq]
  /\ plocal = [p \in Procs |-> NoPosLocal]
  /\ pres = [p \in Procs |-> "none"]
  /\ pstarted = 0

CalculateNext ==
  \/ \E p \in Procs, e \in Employees, save \in BOOLEAN, u \in Users :
       CalculateCommission(p, e, save, u)
  \/ \E p \in Procs, e \in Employees, u \in Users :
       BulkCalculateCommissions(p, e, u)

BulkNext ==
  \/ \E ids \in BulkEmployeeIds, u \in Users : BulkStart("BulkCalculate", ids, u)
  \/ \E ids \in BulkCalculationIds, u \in Users : BulkStart("BulkApprove", ids, u)
  \/ \E k \in Procs : BulkCalculateWorker(k)
  \/ \E k \in Procs : BulkCalculatePanics(k)
  \/ \E k \in Procs : BulkApproveWorkerLock(k)
  \/ \E k \in Procs : BulkApproveWorkerSave(k)
  \/ \E k \in Procs : BulkDbError(k)
  \/ \E k \in Procs : BulkCollect(k)
  \/ BulkAnswer

\* ------------------------------------------------------------------------
\* Commissions: properties
\* ------------------------------------------------------------------------
\* handler p has answered a mutating request with success
CommMutated(p) ==
  /\ cpc[p] = "idle" /\ cres[p] = "ok"
  /\ creq[p].op \in {"Approve", "Reject", "Pay", "Recalculate"}

\* C25: once Approve/Reject/Pay/Recalculate has returned, neither
\* commission_calculation:<id> nor the commission_summary entry of the
\* calculation's employee holds a snapshot that differs from the committed
\* state (so a later GetCommissionCalculation, which answers with the
\* cached value on a hit, returns the committed state), whatever reads
\* were in flight during the mutation
C25_NoStaleSnapshotAfterMutation ==
  \A p \in Procs :
    CommMutated(p) =>
      LET id == creq[p].id
          e  == calcs[id].employee_id IN
      /\ cache.calc[id] \in {<< >>, << calcs[id] >>}
      /\ cache.summary[e] \in {<< >>, << CommissionSummary(e) >>}

\* the entries the two slices of the bulk request hold for goroutine k
BulkEntries(k) ==
  Cardinality({i \in 1..Len(bulk.successes) : bulk.successes[i].worker = k})
    + Cardinality({i \in 1..Len(bulk.errors) : bulk.errors[i].worker = k})

\* the bulk request is over: it was answered, or the process serving it died
BulkOver == bulk.answer # << >> \/ bulk.crashed

\* C24: when a bulk request is over, each of its input ids has exactly one
\* entry in successes or errors and the two counts add up to the number of
\* inputs; every id reported as a success is committed (an approved row,
\* a created row) whatever happened to the other ids
C24_EachInputOneEntry ==
  (bulk.op # "none" /\ bulk.inputs # << >> /\ BulkOver) =>
    /\ bulk.answer # << >>
    /\ \A k \in 1..Len(bulk.inputs) : BulkEntries(k) = 1
    /\ bulk.answer[1].success_count + bulk.answer[1].error_count = Len(bulk.inputs)
    /\ bulk.op = "BulkApprove" =>
         \A i \in 1..Len(bulk.successes) :
           /\ calcs0[bulk.successes[i].id].status = "CALCULATED"
           /\ calcs[bulk.successes[i].id].status = "APPROVED"
    /\ bulk.op = "BulkCalculate" =>
         Len(calcs) = Len(calcs0) + Len(bulk.successes)

\* handler p has answered a request that computes the commission of
\* employee e and does not fail for a reason other than the computation
\* (CalculateCommission without save_calculation, or the goroutine of a
\* bulk calculation)
Calculated(p, e) ==
  /\ cpc[p] = "idle" /\ creq[p].employee = e
  /\ \/ creq[p].op = "Calculate" /\ ~creq[p].save
     \/ creq[p].op = "BulkCalculate"

\* the band portion of a tier as the specification states it
BandPortion(tier, S) ==
  IF S > tier.min
    THEN (IF tier.max # << >> /\ tier.max[1] < S THEN tier.max[1] ELSE S) - tier.min
    ELSE 0

RECURSIVE SumPortions(_, _)
SumPortions(tiers, S) ==
  IF tiers = << >> THEN 0 ELSE BandPortion(tiers[1], S) + SumPortions(Tail(tiers), S)

RECURSIVE SumPortionRates(_, _)
SumPortionRates(tiers, S) ==
  IF tiers = << >> THEN 0
  ELSE BandPortion(tiers[1], S) * tiers[1].rate + SumPortionRates(Tail(tiers), S)

\* what C31 says of the result of a tiered employee with sales total S
TieredResultAsSpecified(e, result) ==
  LET S == SumSeq(SalesData(e))
      listed == SelectSeq(Tiers(e), LAMBDA t : BandPortion(t, S) # 0) IN
  /\ result.err = ""
  /\ SumPortions(Tiers(e), S) = S
  /\ result.totalCommission.num * 100 = SumPortionRates(Tiers(e), S) * result.totalCommission.den
  /\ Len(result.tierCommissions) = Len(listed)
  /\ \A i \in 1..Len(listed) :
       /\ result.tierCommissions[i].tier_min_amount = listed[i].min
       /\ result.tierCommissions[i].tier_max_amount = listed[i].max
       /\ result.tierCommissions[i].tier_sales_amount = BandPortion(listed[i], S)

\* C31: a commission calculation for a tiered employee (tiers contiguous
\* from 0 to infinity) with sales total S that returns answers with band
\* portions min(S, max) - min for every tier with S > min and 0 otherwise,
\* which sum to S; the total commission is the sum of portion x rate / 100
\* and the breakdown lists exactly the tiers with a nonzero portion
C31_TieredBands ==
  \A p \in Procs, e \in TieredEmployees :
    (Calculated(p, e) /\ cres[p] # "panic") =>
      /\ cres[p] = "ok"
      /\ TieredResultAsSpecified(e, calculateCommissionLogic(e))

\* employee 5 (tiers [0, 10.00] at 5 and [10.00, inf) at 10) sold 15.00 and
\* the calculation answered: 0.50 + 0.50 = 1.00 in two bands
C31_Witness ==
  \E p \in Procs :
    /\ Calculated(p, 5) /\ cres[p] = "ok"
    /\ tierSales[5] = << 1500 >>
    /\ StringFixed2(calculateCommissionLogic(5).totalCommission) = 100
    /\ Len(calculateCommissionLogic(5).tierCommissions) = 2

\* C32: a commission calculation for an active employee who served items
\* in the period completes without error, also when the sales total S is
\* 0: then every CommissionDetail has commission_amount 0; when S > 0 each
\* detail has sales_amount x total commission / S
C32_ZeroSalesCompletes ==
  \A p \in Procs, e \in Employees :
    ( /\ Calculated(p, e)
      /\ Employee(e).is_active
      /\ Employee(e).commission_type \in {"percentage", "tiered", "fixed_amount"}
      /\ SalesData(e) # << >> ) =>
      /\ cres[p] = "ok"
      /\ LET result == calculateCommissionLogic(e)
             S == SumSeq(SalesData(e)) IN
         /\ Len(result.details) = Len(SalesData(e))
         /\ \A i \in 1..Len(result.details) :
              result.details[i].commission_amount =
                IF S = 0 THEN 0
                ELSE StringFixed2(Dec(SalesData(e)[i] * result.totalCommission.num,
                                      result.totalCommission.den * S))

\* handler p answers in this step
CommReturns(p) ==
  /\ cpc'[p] = "idle"
  /\ cpc[p] # "idle" \/ creq'[p].seq # creq[p].seq

\* handler p answers a CalculateCommission for employee e in this step
CalculateReturns(p, e) ==
  /\ CommReturns(p)
  /\ creq'[p].op = "Calculate" /\ creq'[p].employee = e

\* the order item rows that belong to no completed sale: the document is
\* still PENDING, was voided, or is a RETURN document
NotOfCompletedOrder ==
  { k \in 1..Len(orderItems) :
      \/ orders[orderItems[k].document_id].paid_status = "PENDING"
      \/ orders[orderItems[k].document_id].document_type \in {"VOID", "RETURN"} }

\* C33: the sales total a CalculateCommission aggregates for an employee
\* counts no item of an order that is still PENDING or was voided and no
\* mirror item of a RETURN document
C33Step ==
  \A p \in Procs :
    CalculateReturns(p, 1) =>
      /\ OrderItemData(1) \cap NotOfCompletedOrder = {}
      /\ calculateCommissionLogic(1).totalSales.num =
           SumSeq(LineTotals(1, OrderItemData(1) \ NotOfCompletedOrder))

C33_OnlyCompletedOrdersCounted == [][C33Step]_vars

\* the status changes of the commission state machine
AllowedTransitions ==
  { << "DRAFT", "CALCULATED" >>, << "CALCULATED", "APPROVED" >>,
    << "CALCULATED", "DRAFT" >>, << "APPROVED", "PAID" >> }

\* the statuses an operation may be invoked on
SourceStatuses(op) ==
  CASE op = "Recalculate" -> {"DRAFT", "CALCULATED"}
    [] op \in {"Approve", "BulkApprove", "Reject"} -> {"CALCULATED"}
    [] op = "Pay" -> {"APPROVED"}
    [] OTHER -> {"DRAFT", "CALCULATED", "APPROVED", "PAID"}

C5Step ==
  /\ \A i \in 1..Len(calcs) :
       calcs'[i].status # calcs[i].status
         => << calcs[i].status, calcs'[i].status >> \in AllowedTransitions
  /\ \A p \in Procs :
       ( /\ CommReturns(p)
         /\ cfault' = cfault
         /\ creq'[p].op \in {"Recalculate", "Approve", "Reject", "Pay"}
         /\ CalcExists(creq'[p].id)
         /\ calcs[creq'[p].id].status \notin SourceStatuses(creq'[p].op) )
       => cres'[p] = "precondition_failed" /\ calcs' = calcs

\* C5: a calculation's status changes only along DRAFT->CALCULATED,
\* CALCULATED->APPROVED, CALCULATED->DRAFT and APPROVED->PAID, and an
\* operation invoked on a calculation in another status fails with
\* precondition_failed and leaves the calculation unchanged.
C5_StatusTransitions == [][C5Step]_vars

\* C6: once a calculation is paid its status and total_commission never
\* change again, so every CommissionPayment row references a calculation
\* in status PAID whose total_commission equals payment_amount.
C6_PaidIsFinal ==
  \A j \in 1..Len(payments) :
    /\ calcs[payments[j].calculation_id].status = "PAID"
    /\ calcs[payments[j].calculation_id].total_commission = payments[j].payment_amount

PaymentsOf(id) == {j \in 1..Len(payments) : payments[j].calculation_id = id}

\* C7: every calculation in status PAID has exactly one CommissionPayment
\* row, and its payment_amount equals the calculation's total_commission.
C7_PaidHasOnePayment ==
  \A i \in 1..Len(calcs) :
    calcs[i].status = "PAID"
      => /\ Cardinality(PaymentsOf(i)) = 1
         /\ \A j \in PaymentsOf(i) : payments[j].payment_amount = calcs[i].total_commission

\* a PayCommission of this behaviour has paid a calculation
C7_Witness ==
  \E p \in Procs :
    /\ creq[p].op = "Pay" /\ cres[p] = "ok" /\ cpc[p] = "idle"
    /\ calcs[creq[p].id].status = "PAID"
    /\ Cardinality(PaymentsOf(creq[p].id)) = 1

\* two PayCommission calls for calculation 1, which was APPROVED when the
\* first of them started, have both answered and no statement failed
TwoPaysDone ==
  /\ calcs0[1].status = "APPROVED"
  /\ cstarted = 2
  /\ ~cfault
  /\ \A p \in Procs : cpc[p] = "idle" /\ creq[p].op = "Pay" /\ creq[p].id = 1

\* C8: of concurrent (or retried) PayCommission calls for one APPROVED
\* calculation exactly one succeeds and creates the single payment; the
\* other fails, creates no payment row and changes no state.
C8_PayExactlyOnce ==
  /\ \A i \in 1..Len(calcs) : Cardinality(PaymentsOf(i)) <= 1
  /\ TwoPaysDone
       => /\ Cardinality({p \in Procs : cres[p] = "ok"}) = 1
          /\ Cardinality({p \in Procs : cres[p] = "precondition_failed"}) = 1
          /\ Len(payments) = 1
          /\ payments[1].calculation_id = 1
          /\ payments[1].payment_amount = calcs0[1].total_commission
          /\ calcs = << [calcs0[1] EXCEPT !.status = "PAID"] >>

C8_Witness ==
  /\ TwoPaysDone
  /\ \E p \in Procs : cres[p] = "ok"
  /\ \E p \in Procs : cres[p] = "precondition_failed"

\* two decisions on calculation 1, which was CALCULATED when the first of
\* them started, have both answered and no statement failed: an approval
\* against a rejection, or two approvals (single or bulk)
DecisionOps == {"Approve", "BulkApprove", "Reject"}

TwoDecisionsDone ==
  /\ calcs0[1].status = "CALCULATED"
  /\ cstarted = 2
  /\ ~cfault
  /\ \A p \in Procs : cpc[p] = "idle" /\ creq[p].op \in DecisionOps /\ creq[p].id = 1
  /\ \E p \in Procs : creq[p].op # "Reject"

\* the row the successful decision of handler p writes over the initial row
DecidedRow(p) ==
  IF creq[p].op = "Reject"
    THEN RejectedRow(calcs0[1], creq[p].notes)
    ELSE ApprovedRow(calcs0[1], creq[p].user, creq[p].notes)

RecalculateCommits(p) ==
  /\ cpc[p] = "write" /\ creq[p].op = "Recalculate"
  /\ cpc'[p] = "idle" /\ cres'[p] = "ok"

\* no other recalculation of the calculation has committed since handler
\* p's DELETE started: the DELETE removed every detail row there is
RecalculatesAlone(p) == cdeleted[p] = Len(calcs[creq[p].id].details)

\* the calculation holds the detail rows of one computation over the
\* sales data
OneDetailSet(row) ==
  row.details = calculateCommissionLogic(row.employee_id).details

C23Step ==
  \A p \in Procs :
    ( /\ RecalculateCommits(p) /\ RecalculatesAlone(p)
      /\ sales = InitSales /\ OneDetailSet(calcs[creq[p].id]) ) =>
      LET before == calcs[creq[p].id]
          after == calcs'[creq[p].id] IN
      /\ after.total_sales = before.total_sales
      /\ after.base_commission = before.base_commission
      /\ after.bonus_commission = before.bonus_commission
      /\ after.total_commission = before.total_commission
      /\ after.details = before.details
      /\ after.status = "CALCULATED" /\ after.approved_by = 0

\* C23: while the sales data are those every calculation was computed
\* from, a RecalculateCommission that commits leaves total_sales, base,
\* bonus and total commission and the CommissionDetail rows as they were,
\* with status CALCULATED and approved_by = null; the old detail rows are
\* replaced, not kept.  (A recalculation that overlaps another one of the
\* same calculation, and the second detail set it leaves, are C39's.)
C23_RecalculateIdempotent == [][C23Step]_vars

C23_Witness ==
  \E p \in Procs :
    /\ cpc[p] = "idle" /\ cres[p] = "ok" /\ creq[p].op = "Recalculate"
    /\ sales = InitSales
    /\ calcs0[creq[p].id].status = "APPROVED"
    /\ calcs[creq[p].id].status = "CALCULATED"
    /\ Len(calcs[creq[p].id].details) = 1

\* the calculation holds the header totals and the detail rows of one
\* computation over the sales data
SingleComputation(row) ==
  LET result == CalculationModel(row.employee_id,
                                 calculateCommissionLogic(row.employee_id),
                                 row.calculated_by) IN
  /\ row.total_sales = result.total_sales
  /\ row.base_commission = result.base_commission
  /\ row.bonus_commission = result.bonus_commission
  /\ row.total_commission = result.total_commission
  /\ OneDetailSet(row)

\* C39: over unchanged sales data, once a RecalculateCommission has
\* returned the calculation holds exactly one CommissionDetail row per
\* contributing order item and the header totals of a single computation,
\* however the RecalculateCommission calls on it interleaved: the detail
\* sets of two recalculations are never both present.
C39_ConcurrentRecalculateOneDetailSet ==
  \A p \in Procs :
    ( /\ cpc[p] = "idle" /\ creq[p].op = "Recalculate" /\ cres[p] = "ok"
      /\ sales = InitSales /\ ~cfault )
      => SingleComputation(calcs[creq[p].id])

\* handler p served the n-th request of the behaviour, of this kind and
\* for this calculation, and has answered
CommServed(p, n, op, id) ==
  /\ cpc[p] = "idle" /\ creq[p].seq = n /\ creq[p].op = op /\ creq[p].id = id

\* C22: for a calculation in status CALCULATED, a successful
\* ApproveCommission followed by RejectCommission, the only two requests
\* of the behaviour, leaves the status DRAFT with approved_by = null.
C22_ApproveThenRejectIsDraft ==
  \A p, r \in Procs, id \in CalcIds :
    ( /\ id <= Len(calcs0) /\ calcs0[id].status = "CALCULATED"
      /\ ~cfault
      /\ CommServed(p, 1, "Approve", id) /\ cres[p] = "ok"
      /\ CommServed(r, 2, "Reject", id) )
    => /\ cres[r] = "ok"
       /\ calcs[id].status = "DRAFT" /\ calcs[id].approved_by = 0

\* ------------------------------------------------------------------------
\* POS: data
\* ------------------------------------------------------------------------
\* pos.products: product 1 is active, product 2 is inactive, product 3 is
\* active and requires a service employee, product 4 is active (prices in
\* cents, the commission rate of the product's group in percent)
ProductIds == {1, 2, 3, 4}

Product(id) ==
  CASE id = 1 -> [is_active |-> TRUE,  product_price |-> 1000,
                  requires_service_employee |-> FALSE, group_rate |-> 5]
    [] id = 2 -> [is_active |-> FALSE, product_price |-> 1000,
                  requires_service_employee |-> FALSE, group_rate |-> 5]
    [] id = 4 -> [is_active |-> TRUE,  product_price |-> 1004,
                  requires_service_employee |-> FALSE, group_rate |-> 5]
    [] OTHER  -> [is_active |-> TRUE,  product_price |-> 500,
                  requires_service_employee |-> TRUE,  group_rate |-> 5]

\* pos.discounts: discount_type 1 is PERCENTAGE, 2 FIXED_AMOUNT, 3
\* BUY_X_GET_Y; discount_value is the decimal string in hundredths (10.00
\* percent, 12.00 off per unit, 1.00 free item); product_id 0 is nil.
\* Discount 4 is inactive, every other id does not exist.
DiscountIds == {1, 2, 3, 4}

Discount(id) ==
  CASE id = 1 -> [is_active |-> TRUE,  discount_type |-> 1, discount_value |-> 1000,
                  product_id |-> 0, min_quantity |-> 1]
    [] id = 2 -> [is_active |-> TRUE,  discount_type |-> 2, discount_value |-> 1200,
                  product_id |-> 0, min_quantity |-> 1]
    [] id = 3 -> [is_active |-> TRUE,  discount_type |-> 3, discount_value |-> 100,
                  product_id |-> 1, min_quantity |-> 2]
    [] OTHER  -> [is_active |-> FALSE, discount_type |-> 1, discount_value |-> 1000,
                  product_id |-> 0, min_quantity |-> 1]

\* Where("id = ? AND is_active = ?", id, true).First(&discount) finds a row
DiscountFound(id) == id \in DiscountIds /\ Discount(id).is_active

\* the document numbers, cashiers, payment types and tendered amounts
\* (cents) a request may carry; "" and 0 are rejected by validation
DocumentNumbers == {"", "INV-1", "INV-2"}
Cashiers == {0, 5}
PaymentTypeIds == {1, 2}
PaidAmounts == {1000, 3000}

\* an OrderItemRequest; serving_employee_id 0 and discount_id 0 are nil
ItemReqD(product, qty, emp, discount) ==
  [product_id |-> product, quantity |-> qty, serving_employee_id |-> emp,
   discount_id |-> discount]

\* an OrderItemRequest without discount
ItemReq(product, qty, emp) == ItemReqD(product, qty, emp, 0)

\* the order_items lists a CreateOrder request may carry
ItemLists ==
  { << >>,
    << ItemReq(1, 2, 0) >>,
    << ItemReq(1, 1, 0), ItemReq(2, 1, 0) >>,
    << ItemReq(3, 1, 0) >> }

\* strconv.FormatFloat(x, 'f', 2, 64) of the amount num/den cents
FormatFloat2(num, den) == ((2 * num) + den) \div (2 * den)

\* taxRate := 0.10
Tax(amount) == FormatFloat2(amount * 10, 100)

\* CreateOrder's loop: the discount of the item is looked up and applies
ItemDiscounted(item) == item.discount_id # 0 /\ DiscountFound(item.discount_id)

\* the per-item checks of CreateOrder's loop, "" when the item passes
ItemError(item) ==
  IF ~(item.product_id \in ProductIds /\ Product(item.product_id).is_active)
    THEN "product not found or inactive"
  ELSE IF /\ Product(item.product_id).requires_service_employee
          /\ item.serving_employee_id = 0
    THEN "requires a service employee"
  ELSE IF /\ ItemDiscounted(item)
          /\ Discount(item.discount_id).product_id # 0
          /\ Discount(item.discount_id).product_id # item.product_id
    THEN "Discount does not apply to product"
  ELSE IF /\ ItemDiscounted(item)
          /\ item.quantity < Discount(item.discount_id).min_quantity
    THEN "Discount requires minimum quantity"
  ELSE ""

\* lineSubtotal := unitPrice * quantity, in cents
LineSubtotal(item) == Product(item.product_id).product_price * item.quantity

\* the switch on discount.DiscountType of CreateOrder: discountAmount in
\* 1/10000 cent (the float64 value before any formatting)
DiscountAmountOf(discount, unitPrice, quantity) ==
  CASE discount.discount_type = 1 ->
         (unitPrice * quantity) * discount.discount_value
    [] discount.discount_type = 2 ->
         (discount.discount_value * quantity) * 10000
    [] discount.discount_type = 3 ->
         IF quantity >= discount.min_quantity
           THEN LET freeItems == (quantity \div discount.min_quantity)
                                   * (discount.discount_value \div 100) IN
                (unitPrice * freeItems) * 10000
           ELSE 0
    [] OTHER -> 0

\* discountAmount of one item of CreateOrder's loop, in 1/10000 cent
LineDiscount(item) ==
  IF ItemDiscounted(item)
    THEN DiscountAmountOf(Discount(item.discount_id),
                          Product(item.product_id).product_price, item.quantity)
    ELSE 0

\* the OrderItem CreateOrder builds for an item
OrderItemRow(docId, item) ==
  LET product == Product(item.product_id)
      lineSubtotal == LineSubtotal(item)
      lineTotal == (lineSubtotal * 10000) - LineDiscount(item) IN
  [document_id           |-> docId,
   product_id            |-> item.product_id,
   serving_employee_id   |-> item.serving_employee_id,
   quantity              |-> item.quantity,
   unit_price            |-> product.product_price,
   price_before_discount |-> lineSubtotal,
   discount_id           |-> IF ItemDiscounted(item) THEN item.discount_id ELSE 0,
   discount_amount       |-> FormatFloat2(LineDiscount(item), 10000),
   line_total            |-> FormatFloat2(lineTotal, 10000),
   commission_amount     |-> FormatFloat2(lineTotal * product.group_rate, 1000000)]

\* the first error of the loop over the items, "" when all pass
RECURSIVE FirstItemError(_)
FirstItemError(items) ==
  IF items = << >> THEN ""
  ELSE IF ItemError(items[1]) # "" THEN ItemError(items[1])
  ELSE FirstItemError(Tail(items))

ItemRows(docId, items) == [i \in 1..Len(items) |-> OrderItemRow(docId, items[i])]

RECURSIVE SumField(_, _)
SumField(rows, f) ==
  IF rows = << >> THEN 0 ELSE rows[1][f] + SumField(Tail(rows), f)

\* the OrderDocument CreateOrder inserts first (totals are saved later)
NewOrder(doc, cashier, p) ==
  [NoOrder EXCEPT !.document_number = doc, !.cashier_id = cashier,
                  !.document_type = "SALE", !.paid_status = "PENDING", !.tx = p]

\* subtotal += lineSubtotal (cents) and totalDiscount += discountAmount
\* (1/10000 cent) over the items of the request
RECURSIVE SumSubtotal(_)
SumSubtotal(items) ==
  IF items = << >> THEN 0 ELSE LineSubtotal(items[1]) + SumSubtotal(Tail(items))

RECURSIVE SumDiscount(_)
SumDiscount(items) ==
  IF items = << >> THEN 0 ELSE LineDiscount(items[1]) + SumDiscount(Tail(items))

\* the totals CreateOrder saves after the loop: each is formatted from the
\* float64 accumulators, totalTax = (subtotal - totalDiscount) * 0.10
WithTotals(order, items) ==
  LET subtotal == SumSubtotal(items)
      net == (subtotal * 10000) - SumDiscount(items) IN
  [order EXCEPT !.subtotal = subtotal,
                !.discount_amount = FormatFloat2(SumDiscount(items), 10000),
                !.tax_amount = FormatFloat2(net, 100000),
                !.total_amount = FormatFloat2(11 * net, 100000)]

\* the CartItem AddItemToCart creates for a product that is not in the
\* cart; the id of a cart item is its position in the cart's items, and a
\* row that was deleted stays at its position with deleted = TRUE
CartItemRow(item) ==
  [product_id |-> item.product_id, serving_employee_id |-> item.serving_employee_id,
   quantity |-> item.quantity, unit_price |-> Product(item.product_id).product_price,
   discount_id |-> 0, discount_amount |-> 0,
   line_total |-> Product(item.product_id).product_price * item.quantity,
   deleted |-> FALSE]

\* the cart_items rows of a cart that exist
LiveItems(cart) == SelectSeq(cart.items, LAMBDA row : ~row.deleted)

CartOf(cashier, items) ==
  LET rows == [i \in 1..Len(items) |-> CartItemRow(items[i])]
      subtotal == SumField(rows, "line_total") + SumField(rows, "discount_amount")
      totalDiscount == SumField(rows, "discount_amount") IN
  [cashier_id |-> cashier, status |-> 0, items |-> rows,
   subtotal |-> subtotal, discount_amount |-> totalDiscount,
   tax_amount |-> Tax(subtotal - totalDiscount),
   total_amount |-> (subtotal - totalDiscount) + Tax(subtotal - totalDiscount)]

\* the carts table: cart 1 holds two units of product 1, cart 2 is empty
InitCarts == << CartOf(5, << ItemReq(1, 2, 0) >>), CartOf(5, << >>) >>
CartIds == {1, 2, 3}

\* the orders tables a behaviour may start from: no order, or the order
\* CreateOrder made for two units of product 1 under number INV-1
InitOrderTables ==
  LET items == << ItemReq(1, 2, 0) >> IN
  { [orders |-> << >>, items |-> << >>],
    [orders |-> << WithTotals(NewOrder("INV-1", 5, 0), items) >>,
     items |-> ItemRows(1, items)] }

\* the value the literal 1 of ProcessPayment denotes in proto.PaidStatus
PaidStatusLiteral1 == "PAID"

\* ------------------------------------------------------------------------
\* POS: helpers
\* ------------------------------------------------------------------------
PosIdle(p) == ppc[p] = "idle" /\ pstarted < MaxPosOps

PosStart(p, req) ==
  /\ preq' = [preq EXCEPT ![p] = req]
  /\ pstarted' = pstarted + 1

\* the handler returns; what it wrote (if anything) is set by the caller
PosReturn(p, r) ==
  /\ ppc' = [ppc EXCEPT ![p] = "idle"]
  /\ pres' = [pres EXCEPT ![p] = r]
  /\ plocal' = [plocal EXCEPT ![p] = NoPosLocal]

\* the handler returns without having changed the database
PosFail(p, r) ==
  /\ PosReturn(p, r)
  /\ UNCHANGED << orders, orderItems, carts, events >>

\* Where("document_number = ?").First(&existingOrder) finds a committed row
DocumentExists(doc) ==
  \E i \in 1..Len(orders) : orders[i].document_number = doc /\ orders[i].tx = 0

\* the unique index on OrderDocument.DocumentNumber: an INSERT waits while
\* another open transaction holds the key, and fails once the key is
\* committed
DocumentKeyPending(doc, p) ==
  \E i \in 1..Len(orders) :
    orders[i].document_number = doc /\ orders[i].tx \notin {0, -1, p}

\* DocumentKeyTaken for a column without the unique index
DocumentKeyUnindexed(doc) == FALSE

DocumentKeyTaken(doc) ==
  \E i \in 1..Len(orders) : orders[i].document_number = doc /\ orders[i].tx = 0

\* RolledBack for an INSERT issued on s.db instead of tx: the row is
\* committed at once and no Rollback removes it
RolledBackNotInTx(tbl, p) ==
  [i \in 1..Len(tbl) |-> IF tbl[i].tx = p THEN [tbl[i] EXCEPT !.tx = 0] ELSE tbl[i]]

\* tx.Rollback(): the rows the open transaction of p inserted are dropped
RolledBack(tbl, p) ==
  [i \in 1..Len(tbl) |-> IF tbl[i].tx = p THEN [tbl[i] EXCEPT !.tx = -1] ELSE tbl[i]]

\* the two messages publishOrderEvent sends
Published(type, id) ==
  << [channel |-> "pos:events:" \o type, event_type |-> type, order_id |-> id],
     [channel |-> "pos:events:all", event_type |-> type, order_id |-> id] >>

PosInit ==
  /\ \E t \in InitOrderTables : orders0 = t.orders /\ orderItems = t.items
  /\ orders = orders0
  /\ carts = InitCarts
  /\ events = << >>
  /\ ppc = [p \in Procs |-> "idle"]
  /\ preq = [p \in Procs |-> NoPosReq]
  /\ plocal = [p \in Procs |-> NoPosLocal]
  /\ pres = [p \in Procs |-> "none"]
  /\ pstarted = 0
  \* the inventory tables are empty and its handlers idle
  /\ paging = NoPaging
  /\ stocks0 = << >> /\ stocks = << >> /\ movements = << >>
  /\ ipc = [p \in Procs |-> "idle"]
  /\ ireq = [p \in Procs |-> NoInvReq]
  /\ ilocal = [p \in Procs |-> NoInvLocal]
  /\ ires = [p \in Procs |-> "none"]
  /\ istarted = 0
  \* the commission tables are empty and its handlers idle
  /\ sales = << >> /\ calcs0 = << >> /\ calcs = << >> /\ payments = << >>
  /\ tierSales = NoTierSales
  /\ cdeleted = NoDeleted
  /\ rowLock = [i \in 1..MaxCalcs |-> 0]
  /\ cpc = [p \in Procs |-> "idle"]
  /\ creq = [p \in Procs |-> NoCommReq]
  /\ clocal = [p \in Procs |-> NoCalc]
  /\ cres = [p \in Procs |-> "none"]
  /\ cstarted = 0
  /\ cfault = FALSE
  /\ cache = NoCache /\ bulk = NoBulk

\* ------------------------------------------------------------------------
\* POS: handlers
\* ------------------------------------------------------------------------
\* CreateOrder up to BEGIN: validation and the document-number lookup
CreateOrderCheck(p, doc, cashier, items) ==
  /\ PosIdle(p)
  /\ PosStart(p, [NoPosReq EXCEPT !.op = "CreateOrder", !.document_number = doc,
                                  !.cashier_id = cashier, !.items = items])
  /\ IF doc = "" THEN PosFail(p, "document_number required")
     ELSE IF cashier = 0 THEN PosFail(p, "cashier_id required")
     ELSE IF Len(items) = 0 THEN PosFail(p, "order must have at least one item")
     ELSE IF DocumentExists(doc) THEN PosFail(p, "Document number already exists")
     ELSE /\ ppc' = [ppc EXCEPT ![p] = "insert"]
          /\ UNCHANGED << orders, orderItems, carts, events, plocal, pres >>
  /\ UNCHANGED << invVars, commVars, orders0 >>

\* tx.Create(&order) of CreateOrder and of CreateOrderFromCart
InsertOrder(p, order) ==
  /\ ~DocumentKeyPending(order.document_number, p)
  /\ IF DocumentKeyTaken(order.document_number)
       THEN PosFail(p, "Failed to create order")
       ELSE /\ Len(orders) < MaxOrders
            /\ orders' = Append(orders, order)
            /\ ppc' = [ppc EXCEPT ![p] = "items"]
            /\ plocal' = [plocal EXCEPT ![p].id = Len(orders) + 1, ![p].order = order]
            /\ UNCHANGED << orderItems, carts, events, pres >>

CreateOrderInsert(p) ==
  /\ ppc[p] = "insert" /\ preq[p].op = "CreateOrder"
  /\ InsertOrder(p, NewOrder(preq[p].document_number, preq[p].cashier_id, p))
  /\ UNCHANGED << invVars, commVars, orders0, preq, pstarted >>

\* CreateOrder, the loop over the items, Save(&order) and COMMIT; the
\* first item that fails a check rolls the transaction back
CreateOrderItems(p) ==
  /\ ppc[p] = "items" /\ preq[p].op = "CreateOrder"
  /\ IF FirstItemError(preq[p].items) # ""
       THEN /\ orders' = RolledBack(orders, p)
            /\ PosReturn(p, FirstItemError(preq[p].items))
            /\ UNCHANGED << orderItems, carts, events >>
       ELSE LET rows == ItemRows(plocal[p].id, preq[p].items)
                saved == [WithTotals(plocal[p].order, preq[p].items)
                            EXCEPT !.tx = 0] IN
            /\ orders' = [orders EXCEPT ![plocal[p].id] = saved]
            /\ orderItems' = orderItems \o rows
            /\ ppc' = [ppc EXCEPT ![p] = "publish"]
            /\ plocal' = [plocal EXCEPT ![p].order = saved]
            /\ UNCHANGED << carts, events, pres >>
  /\ UNCHANGED << invVars, commVars, orders0, preq, pstarted >>

\* CreateOrder / CreateOrderFromCart after COMMIT: reload, publish
\* order.created on both channels, answer
CreateOrderPublish(p) ==
  /\ ppc[p] = "publish"
  /\ events' = events \o Published("order.created", plocal[p].id)
  /\ PosReturn(p, "ok")
  /\ UNCHANGED << invVars, commVars, orders0, orders, orderItems, carts, preq,
                  pstarted >>

\* CreateOrderFromCart up to the cart lookup: validation and the
\* document-number lookup
CreateOrderFromCartCheck(p, cart, doc) ==
  /\ PosIdle(p)
  /\ PosStart(p, [NoPosReq EXCEPT !.op = "CreateOrderFromCart", !.cart_id = cart,
                                  !.document_number = doc])
  /\ IF doc = "" THEN PosFail(p, "document_number required")
     ELSE IF DocumentExists(doc) THEN PosFail(p, "Document number already exists")
     ELSE /\ ppc' = [ppc EXCEPT ![p] = "readCart"]
          /\ UNCHANGED << orders, orderItems, carts, events, plocal, pres >>
  /\ UNCHANGED << invVars, commVars, orders0 >>

\* CreateOrderFromCart: Where("id = ? AND status = ?", cartId, 0) with the
\* items preloaded
CreateOrderFromCartRead(p) ==
  /\ ppc[p] = "readCart"
  /\ IF ~(preq[p].cart_id \in 1..Len(carts) /\ carts[preq[p].cart_id].status = 0)
       THEN PosFail(p, "Cart not found or already processed")
     ELSE IF Len(LiveItems(carts[preq[p].cart_id])) = 0
       THEN PosFail(p, "Cart is empty")
     ELSE /\ ppc' = [ppc EXCEPT ![p] = "insert"]
          /\ plocal' = [plocal EXCEPT ![p].cart =
               [carts[preq[p].cart_id] EXCEPT
                  !.items = LiveItems(carts[preq[p].cart_id])]]
          /\ UNCHANGED << orders, orderItems, carts, events, pres >>
  /\ UNCHANGED << invVars, commVars, orders0, preq, pstarted >>

\* the OrderDocument CreateOrderFromCart inserts: the cart's totals
OrderFromCart(doc, cart, p) ==
  [NewOrder(doc, cart.cashier_id, p) EXCEPT
     !.subtotal = cart.subtotal, !.tax_amount = cart.tax_amount,
     !.discount_amount = cart.discount_amount, !.total_amount = cart.total_amount]

CreateOrderFromCartInsert(p) ==
  /\ ppc[p] = "insert" /\ preq[p].op = "CreateOrderFromCart"
  /\ InsertOrder(p, OrderFromCart(preq[p].document_number, plocal[p].cart, p))
  /\ UNCHANGED << invVars, commVars, orders0, preq, pstarted >>

\* the OrderItem CreateOrderFromCart builds from a cart item
OrderItemFromCart(docId, cartItem) ==
  [document_id           |-> docId,
   product_id            |-> cartItem.product_id,
   serving_employee_id   |-> cartItem.serving_employee_id,
   quantity              |-> cartItem.quantity,
   unit_price            |-> cartItem.unit_price,
   price_before_discount |-> cartItem.unit_price * cartItem.quantity,
   discount_id           |-> cartItem.discount_id,
   discount_amount       |-> cartItem.discount_amount,
   line_total            |-> cartItem.line_total,
   commission_amount     |-> FormatFloat2(cartItem.line_total
                                           * Product(cartItem.product_id).group_rate, 100)]

\* CreateOrderFromCart, the loop over the cart items, the cart's
\* Update("status", 1) and COMMIT
CreateOrderFromCartItems(p) ==
  /\ ppc[p] = "items" /\ preq[p].op = "CreateOrderFromCart"
  /\ LET rows == [i \in 1..Len(plocal[p].cart.items) |->
                   OrderItemFromCart(plocal[p].id, plocal[p].cart.items[i])]
         saved == [plocal[p].order EXCEPT !.tx = 0] IN
     /\ orders' = [orders EXCEPT ![plocal[p].id] = saved]
     /\ orderItems' = orderItems \o rows
     /\ carts' = [carts EXCEPT ![preq[p].cart_id].status = 1]
     /\ plocal' = [plocal EXCEPT ![p].order = saved]
  /\ ppc' = [ppc EXCEPT ![p] = "publish"]
  /\ UNCHANGED << invVars, commVars, orders0, events, preq, pres, pstarted >>

\* a statement of the open transaction fails: Rollback and an error answer
PosDbError(p) ==
  /\ ppc[p] \in {"insert", "items", "voidWrite", "returnInsert", "returnItems"}
  /\ orders' = RolledBack(orders, p)
  /\ PosReturn(p, "Database error")
  /\ UNCHANGED << invVars, commVars, orders0, orderItems, carts, events, preq,
                  pstarted >>

\* ProcessPayment up to the Save: the plain First(&order), the paid check
\* and the cash check; the paid order is kept in `order`
ProcessPaymentRead(p, id, ptype, paid) ==
  /\ PosIdle(p)
  /\ PosStart(p, [NoPosReq EXCEPT !.op = "ProcessPayment", !.order_id = id,
                                  !.payment_type_id = ptype, !.paid_amount = paid])
  /\ IF id = 0 THEN PosFail(p, "order_id required")
     ELSE IF ~(id \in 1..Len(orders) /\ orders[id].tx = 0)
       THEN PosFail(p, "Order Not Found")
     ELSE IF orders[id].paid_status = PaidStatusLiteral1
       THEN PosFail(p, "Order already paid")
     ELSE IF ptype = 1 /\ paid < orders[id].total_amount
       THEN PosFail(p, "Insufficient payment amount")
     ELSE /\ ppc' = [ppc EXCEPT ![p] = "save"]
          /\ plocal' = [plocal EXCEPT ![p].id = id,
                                      ![p].order = [orders[id] EXCEPT
                                          !.paid_status = PaidStatusLiteral1,
                                          !.payment_type_id = ptype]]
          /\ UNCHANGED << orders, orderItems, carts, events, pres >>
  /\ UNCHANGED << invVars, commVars, orders0 >>

\* ProcessPayment: s.db.Save(&order) writes every column of the row read
ProcessPaymentSave(p) ==
  /\ ppc[p] = "save"
  /\ orders' = [orders EXCEPT ![plocal[p].id] = plocal[p].order]
  /\ PosReturn(p, "ok")
  /\ UNCHANGED << invVars, commVars, orders0, orderItems, carts, events, preq,
                  pstarted >>

\* ProcessPayment: the Save fails
ProcessPaymentSaveError(p) ==
  /\ ppc[p] = "save"
  /\ PosFail(p, "Failed to update order")
  /\ UNCHANGED << invVars, commVars, orders0, preq, pstarted >>

\* ------------------------------------------------------------------------
\* POS: VoidOrder and ReturnOrder
\* ------------------------------------------------------------------------
\* the void reasons and the item_ids lists a request may carry
VoidReasons == {"", "damaged"}
ItemIdLists == { << >>, << 1 >>, << 1, 2 >>, << 2, 3 >> }

\* Where("id = ?", id).First(&order) finds a committed row
OrderFound(id) == id \in 1..Len(orders) /\ orders[id].tx = 0

\* VoidRejection without the check of the document type
VoidRejectionUnpaidOnly(order) ==
  IF order.paid_status = "PAID"
    THEN "Cannot void a paid order. Use return instead."
    ELSE ""

\* VoidOrder's checks of the order it loaded, "" when it may be voided
VoidRejection(order) ==
  IF order.document_type = "VOID" THEN "Order is already voided"
  ELSE IF order.paid_status = "PAID"
    THEN "Cannot void a paid order. Use return instead."
  ELSE ""

\* VoidOrder up to BEGIN: validation, the plain First(&order), the checks
VoidOrderRead(p, id, by, reason) ==
  /\ PosIdle(p)
  /\ PosStart(p, [NoPosReq EXCEPT !.op = "VoidOrder", !.order_id = id,
                                  !.cashier_id = by, !.reason = reason])
  /\ IF id = 0 THEN PosFail(p, "order id required")
     ELSE IF by = 0 THEN PosFail(p, "voided_by (cashier_id) required")
     ELSE IF reason = "" THEN PosFail(p, "void reason required")
     ELSE IF ~OrderFound(id) THEN PosFail(p, "Order not found")
     ELSE IF VoidRejection(orders[id]) # ""
       THEN PosFail(p, VoidRejection(orders[id]))
     ELSE /\ ppc' = [ppc EXCEPT ![p] = "voidWrite"]
          /\ plocal' = [plocal EXCEPT ![p].id = id, ![p].order = orders[id]]
          /\ UNCHANGED << orders, orderItems, carts, events, pres >>
  /\ UNCHANGED << invVars, commVars, orders0 >>

\* VoidOrder: Updates(document_type, notes, updated_at) Where id, COMMIT
VoidOrderWrite(p) ==
  /\ ppc[p] = "voidWrite"
  /\ orders' = [orders EXCEPT ![plocal[p].id].document_type = "VOID",
                              ![plocal[p].id].notes = preq[p].reason]
  /\ ppc' = [ppc EXCEPT ![p] = "voidPublish"]
  /\ UNCHANGED << invVars, commVars, orders0, orderItems, carts, events, preq,
                  plocal, pres, pstarted >>

\* VoidOrder after COMMIT: reload, publish order.voided, answer
VoidOrderPublish(p) ==
  /\ ppc[p] = "voidPublish"
  /\ events' = events \o Published("order.voided", plocal[p].id)
  /\ PosReturn(p, "ok")
  /\ UNCHANGED << invVars, commVars, orders0, orders, orderItems, carts, preq,
                  pstarted >>

\* ReturnOrder: Where("id IN ? AND document_id = ?").Find(&itemsToReturn),
\* the ids of the rows found
ItemsToReturn(itemIds, id) ==
  { k \in 1..Len(orderItems) :
      /\ \E n \in 1..Len(itemIds) : itemIds[n] = k
      /\ orderItems[k].document_id = id }

\* the OrderItems preloaded with the original order
ItemsOfOrder(id) == { k \in 1..Len(orderItems) : orderItems[k].document_id = id }

\* ReturnRejection without the comparison of the number of items found
\* with the number of item_ids
ReturnRejectionAnyItems(order, itemIds, id) ==
  IF order.paid_status # "PAID" THEN "Can only return paid orders"
  ELSE IF order.document_type = "VOID" THEN "Cannot return a voided order"
  ELSE IF ItemsToReturn(itemIds, id) = {} THEN "No valid items found for return"
  ELSE ""

\* ReturnOrder's checks of the original order and of the items found, ""
\* when the return may proceed
ReturnRejection(order, itemIds, id) ==
  IF order.paid_status # "PAID" THEN "Can only return paid orders"
  ELSE IF order.document_type = "VOID" THEN "Cannot return a voided order"
  ELSE IF ItemsToReturn(itemIds, id) = {} THEN "No valid items found for return"
  ELSE IF Cardinality(ItemsToReturn(itemIds, id)) # Len(itemIds)
    THEN "Some item IDs are invalid or don't belong to this order"
  ELSE ""

\* the rows of a set of order_items ids, in primary-key order
RECURSIVE RowsOf(_)
RowsOf(ids) ==
  IF ids = {} THEN << >>
  ELSE LET k == CHOOSE x \in ids : \A y \in ids : x <= y IN
       << orderItems[k] >> \o RowsOf(ids \ {k})

\* ReturnOrder up to BEGIN: validation, the original order with its items,
\* the checks, the items to return
ReturnOrderRead(p, id, by, itemIds) ==
  /\ PosIdle(p)
  /\ PosStart(p, [NoPosReq EXCEPT !.op = "ReturnOrder", !.order_id = id,
                                  !.cashier_id = by, !.item_ids = itemIds])
  /\ IF id = 0 THEN PosFail(p, "original_order_id required")
     ELSE IF by = 0 THEN PosFail(p, "processed_by (cashier_id) required")
     ELSE IF Len(itemIds) = 0
       THEN PosFail(p, "at least one item_id required for return")
     ELSE IF ~OrderFound(id) THEN PosFail(p, "Original order not found")
     ELSE IF ReturnRejection(orders[id], itemIds, id) # ""
       THEN PosFail(p, ReturnRejection(orders[id], itemIds, id))
     ELSE /\ ppc' = [ppc EXCEPT ![p] = "returnInsert"]
          /\ plocal' = [plocal EXCEPT
               ![p].order = orders[id],
               ![p].rows = RowsOf(ItemsToReturn(itemIds, id)),
               ![p].full = (Cardinality(ItemsToReturn(itemIds, id))
                              = Cardinality(ItemsOfOrder(id)))]
          /\ UNCHANGED << orders, orderItems, carts, events, pres >>
  /\ UNCHANGED << invVars, commVars, orders0 >>

\* the return document: the sums of the returned items' formatted
\* price_before_discount and discount_amount, tax at 0.10
ReturnDoc(original, rows, by, p) ==
  LET returnSubtotal == SumField(rows, "price_before_discount")
      returnDiscount == SumField(rows, "discount_amount")
      net == returnSubtotal - returnDiscount IN
  [NoOrder EXCEPT !.document_number = "RET-" \o original.document_number,
                  !.cashier_id = by,
                  !.document_type = "RETURN",
                  !.subtotal = returnSubtotal,
                  !.tax_amount = FormatFloat2(net, 10),
                  !.discount_amount = returnDiscount,
                  !.total_amount = FormatFloat2(11 * net, 10),
                  !.paid_amount = FormatFloat2(11 * net, 10),
                  !.paid_status = "REFUNDED",
                  !.tx = p]

\* ReturnOrder: BEGIN and tx.Create(&returnDoc)
ReturnOrderInsert(p) ==
  /\ ppc[p] = "returnInsert"
  /\ LET doc == ReturnDoc(plocal[p].order, plocal[p].rows, preq[p].cashier_id, p) IN
     /\ ~DocumentKeyPending(doc.document_number, p)
     /\ IF DocumentKeyTaken(doc.document_number)
          THEN PosFail(p, "Failed to create return document")
          ELSE /\ Len(orders) < MaxOrders
               /\ orders' = Append(orders, doc)
               /\ ppc' = [ppc EXCEPT ![p] = "returnItems"]
               /\ plocal' = [plocal EXCEPT ![p].id = Len(orders) + 1]
               /\ UNCHANGED << orderItems, carts, events, pres >>
  /\ UNCHANGED << invVars, commVars, orders0, preq, pstarted >>

\* the mirror OrderItem with the quantity of the original
ReturnItemSameQuantity(docId, item) ==
  [item EXCEPT !.document_id = docId]

\* the mirror OrderItem of a returned item
ReturnItem(docId, item) ==
  [item EXCEPT !.document_id = docId, !.quantity = -item.quantity]

\* ReturnOrder: the loop over the items, the original's paid_status when
\* every item is returned, COMMIT
ReturnOrderItems(p) ==
  /\ ppc[p] = "returnItems"
  /\ orderItems' = orderItems \o
       [i \in 1..Len(plocal[p].rows) |-> ReturnItem(plocal[p].id, plocal[p].rows[i])]
  /\ orders' = [orders EXCEPT
       ![plocal[p].id].tx = 0,
       ![preq[p].order_id].paid_status =
          IF plocal[p].full THEN "REFUNDED" ELSE @]
  /\ ppc' = [ppc EXCEPT ![p] = "returnPublish"]
  /\ UNCHANGED << invVars, commVars, orders0, carts, events, preq, plocal, pres,
                  pstarted >>

\* ReturnOrder after COMMIT: reload, publish order.returned, answer
ReturnOrderPublish(p) ==
  /\ ppc[p] = "returnPublish"
  /\ events' = events \o Published("order.returned", plocal[p].id)
  /\ PosReturn(p, "ok")
  /\ UNCHANGED << invVars, commVars, orders0, orders, orderItems, carts, preq,
                  pstarted >>

\* ------------------------------------------------------------------------
\* POS: carts
\* ------------------------------------------------------------------------
\* the quantities, cart item ids and item_ids lists a cart request may
\* carry (0 is rejected by validation)
CartQuantities == {0, 1}
CartItemIds == {0, 1, 2}
CartItemIdLists == { << >>, << 1 >> }

\* Where("id = ? AND status = ?", cartId, 0).First(&cart) finds a row
OpenCart(c) == c \in 1..Len(carts) /\ carts[c].status = 0

\* the product checks of AddItemToCart, "" when the product may be added
ProductError(product, emp) ==
  IF ~(product \in ProductIds /\ Product(product).is_active)
    THEN "Product not found or inactive"
  ELSE IF Product(product).requires_service_employee /\ emp = 0
    THEN "This product requires a service employee"
  ELSE ""

\* AddItemToCart up to the lookup of the item: validation, the cart, the
\* product
AddItemToCartRead(p, c, product, qty, emp) ==
  /\ PosIdle(p)
  /\ PosStart(p, [NoPosReq EXCEPT !.op = "AddItemToCart", !.cart_id = c,
                                  !.product_id = product, !.quantity = qty,
                                  !.cashier_id = emp])
  /\ IF product = 0 THEN PosFail(p, "product_id required")
     ELSE IF qty <= 0 THEN PosFail(p, "quantity must be greater than 0")
     ELSE IF ~OpenCart(c) THEN PosFail(p, "Cart not found or inactive")
     ELSE IF ProductError(product, emp) # "" THEN PosFail(p, ProductError(product, emp))
     ELSE /\ ppc' = [ppc EXCEPT ![p] = "addFind"]
          /\ UNCHANGED << orders, orderItems, carts, events, plocal, pres >>
  /\ UNCHANGED << invVars, commVars, orders0 >>

\* Where("cart_id = ? AND product_id = ?").First(&existingItem): the id of
\* the first row of the product in the cart, 0 for ErrRecordNotFound
FirstCartItem(c, product) ==
  IF \E k \in 1..Len(carts[c].items) :
       ~carts[c].items[k].deleted /\ carts[c].items[k].product_id = product
    THEN CHOOSE k \in 1..Len(carts[c].items) :
           /\ ~carts[c].items[k].deleted /\ carts[c].items[k].product_id = product
           /\ \A j \in 1..(k - 1) :
                carts[c].items[j].deleted \/ carts[c].items[j].product_id # product
    ELSE 0

\* AddItemToCart: the lookup of the product's line in the cart
AddItemToCartFind(p) ==
  /\ ppc[p] = "addFind"
  /\ LET k == FirstCartItem(preq[p].cart_id, preq[p].product_id) IN
     plocal' = [plocal EXCEPT
       ![p].id = k,
       ![p].rows = IF k = 0 THEN << >> ELSE << carts[preq[p].cart_id].items[k] >>]
  /\ ppc' = [ppc EXCEPT ![p] = "addSave"]
  /\ UNCHANGED << invVars, commVars, orders0, orders, orderItems, carts, events,
                  preq, pres, pstarted >>

\* existingItem.Quantity += quantity; LineTotal = unitPrice * Quantity
AddedToItem(item, qty) ==
  [item EXCEPT !.quantity = item.quantity + qty,
               !.line_total = item.unit_price * (item.quantity + qty)]

\* AddItemToCart: Save(&existingItem) writes every column of the row read
\* (and inserts the row again when it was deleted meanwhile), or
\* Create(&cartItem) appends the new line
AddItemToCartSave(p) ==
  /\ ppc[p] = "addSave"
  /\ LET c == preq[p].cart_id IN
     IF plocal[p].id # 0
       THEN carts' = [carts EXCEPT ![c].items[plocal[p].id] =
                        AddedToItem(plocal[p].rows[1], preq[p].quantity)]
       ELSE carts' = [carts EXCEPT ![c].items =
                        Append(@, CartItemRow(ItemReq(preq[p].product_id,
                                                      preq[p].quantity,
                                                      preq[p].cashier_id)))]
  /\ ppc' = [ppc EXCEPT ![p] = "recalcRead"]
  /\ UNCHANGED << invVars, commVars, orders0, orders, orderItems, events, preq,
                  plocal, pres, pstarted >>

\* RemoveItemFromCart up to the Delete: validation and the cart
RemoveItemFromCartRead(p, c, item) ==
  /\ PosIdle(p)
  /\ PosStart(p, [NoPosReq EXCEPT !.op = "RemoveItemFromCart", !.cart_id = c,
                                  !.item_id = item])
  /\ IF item = 0 THEN PosFail(p, "item_id required")
     ELSE IF ~OpenCart(c) THEN PosFail(p, "Cart not found or inactive")
     ELSE /\ ppc' = [ppc EXCEPT ![p] = "removeDelete"]
          /\ UNCHANGED << orders, orderItems, carts, events, plocal, pres >>
  /\ UNCHANGED << invVars, commVars, orders0 >>

\* a row with this id exists in the cart
CartItemFound(c, k) == k \in 1..Len(carts[c].items) /\ ~carts[c].items[k].deleted

\* RemoveItemFromCart: Where("id = ? AND cart_id = ?").Delete(&CartItem{})
RemoveItemFromCartDelete(p) ==
  /\ ppc[p] = "removeDelete"
  /\ IF CartItemFound(preq[p].cart_id, preq[p].item_id)
       THEN /\ carts' = [carts EXCEPT
                 ![preq[p].cart_id].items[preq[p].item_id].deleted = TRUE]
            /\ ppc' = [ppc EXCEPT ![p] = "recalcRead"]
            /\ UNCHANGED << orders, orderItems, events, plocal, pres >>
       ELSE PosFail(p, "Cart item not found")
  /\ UNCHANGED << invVars, commVars, orders0, preq, pstarted >>

\* the ids of the rows of the cart the discount is eligible for (no
\* discount of this model names a product group)
EligibleItems(c, discount) ==
  LET ok(k) == /\ ~carts[c].items[k].deleted
               /\ \/ discount.product_id = 0
                  \/ carts[c].items[k].product_id = discount.product_id
      keep == {k \in 1..Len(carts[c].items) : ok(k)} IN
  [n \in 1..Cardinality(keep) |->
     CHOOSE k \in keep : Cardinality({j \in keep : j < k}) = n - 1]

\* ApplyDiscount up to the items: validation, the cart, the discount (no
\* discount of this model has a validity period)
ApplyDiscountRead(p, c, discount, itemIds) ==
  /\ PosIdle(p)
  /\ PosStart(p, [NoPosReq EXCEPT !.op = "ApplyDiscount", !.cart_id = c,
                                  !.discount_id = discount, !.item_ids = itemIds])
  /\ IF discount = 0 THEN PosFail(p, "discount_id required")
     ELSE IF ~OpenCart(c) THEN PosFail(p, "Cart not found or inactive")
     ELSE IF ~DiscountFound(discount) THEN PosFail(p, "Discount not found or inactive")
     ELSE /\ ppc' = [ppc EXCEPT ![p] =
                       IF Len(itemIds) > 0 THEN "applyItem" ELSE "applyFind"]
          /\ plocal' = [plocal EXCEPT ![p].ids = itemIds]
          /\ UNCHANGED << orders, orderItems, carts, events, pres >>
  /\ UNCHANGED << invVars, commVars, orders0 >>

\* ApplyDiscount without item_ids: the query for the eligible items
ApplyDiscountFind(p) ==
  /\ ppc[p] = "applyFind"
  /\ LET ids == EligibleItems(preq[p].cart_id, Discount(preq[p].discount_id)) IN
     IF Len(ids) = 0
       THEN PosFail(p, "No eligible items found for this discount")
       ELSE /\ ppc' = [ppc EXCEPT ![p] = "applyItem"]
            /\ plocal' = [plocal EXCEPT ![p].ids = ids]
            /\ UNCHANGED << orders, orderItems, carts, events, pres >>
  /\ UNCHANGED << invVars, commVars, orders0, preq, pstarted >>

\* calculateDiscountAmount: the formatted discount of a cart item
calculateDiscountAmount(discount, item) ==
  FormatFloat2(
    CASE discount.discount_type = 1 ->
           (item.unit_price * item.quantity) * discount.discount_value
      [] discount.discount_type = 2 ->
           (discount.discount_value * item.quantity) * 10000
      [] OTHER -> 0,
    10000)

\* the cart item with the discount applied
DiscountedItem(discount, id, item) ==
  [item EXCEPT
     !.discount_id = id,
     !.discount_amount = calculateDiscountAmount(discount, item),
     !.line_total = (item.unit_price * item.quantity)
                      - calculateDiscountAmount(discount, item)]

\* ApplyDiscount, one round of the loop up to the Save: the item is
\* loaded; an id without row and a quantity below the minimum are skipped
ApplyDiscountItemRead(p) ==
  /\ ppc[p] = "applyItem"
  /\ IF Len(plocal[p].ids) = 0
       THEN /\ ppc' = [ppc EXCEPT ![p] = "recalcRead"]
            /\ UNCHANGED plocal
       ELSE LET k == plocal[p].ids[1]
                c == preq[p].cart_id IN
            IF /\ CartItemFound(c, k)
               /\ carts[c].items[k].quantity
                    >= Discount(preq[p].discount_id).min_quantity
              THEN /\ ppc' = [ppc EXCEPT ![p] = "applySave"]
                   /\ plocal' = [plocal EXCEPT ![p].id = k,
                                               ![p].rows = << carts[c].items[k] >>]
              ELSE /\ ppc' = ppc
                   /\ plocal' = [plocal EXCEPT ![p].ids = Tail(@)]
  /\ UNCHANGED << invVars, commVars, orders0, orders, orderItems, carts, events,
                  preq, pres, pstarted >>

\* ApplyDiscount, the Save(&item) of one round of the loop
ApplyDiscountItemSave(p) ==
  /\ ppc[p] = "applySave"
  /\ carts' = [carts EXCEPT ![preq[p].cart_id].items[plocal[p].id] =
       DiscountedItem(Discount(preq[p].discount_id), preq[p].discount_id,
                      plocal[p].rows[1])]
  /\ ppc' = [ppc EXCEPT ![p] = "applyItem"]
  /\ plocal' = [plocal EXCEPT ![p].ids = Tail(@)]
  /\ UNCHANGED << invVars, commVars, orders0, orders, orderItems, events, preq,
                  pres, pstarted >>

\* the totals recalculateCartTotals computes from the items it found
CartTotals(cart, items) ==
  LET totalDiscount == SumField(items, "discount_amount")
      subtotal == SumField(items, "line_total") + totalDiscount IN
  [cart EXCEPT !.subtotal = subtotal,
               !.discount_amount = totalDiscount,
               !.tax_amount = FormatFloat2(subtotal - totalDiscount, 10),
               !.total_amount = FormatFloat2(11 * (subtotal - totalDiscount), 10)]

\* recalculateCartTotals: Where("cart_id = ?").Find(&items)
RecalculateCartTotalsRead(p) ==
  /\ ppc[p] = "recalcRead"
  /\ plocal' = [plocal EXCEPT ![p].cart =
       CartTotals(NoCart, LiveItems(carts[preq[p].cart_id]))]
  /\ ppc' = [ppc EXCEPT ![p] = "recalcWrite"]
  /\ UNCHANGED << invVars, commVars, orders0, orders, orderItems, carts, events,
                  preq, pres, pstarted >>

\* recalculateCartTotals: Updates of the four totals Where id; then the
\* handler reloads the cart and answers
RecalculateCartTotalsWrite(p) ==
  /\ ppc[p] = "recalcWrite"
  /\ carts' = [carts EXCEPT ![preq[p].cart_id] =
       [@ EXCEPT !.subtotal = plocal[p].cart.subtotal,
                 !.discount_amount = plocal[p].cart.discount_amount,
                 !.tax_amount = plocal[p].cart.tax_amount,
                 !.total_amount = plocal[p].cart.total_amount]]
  /\ PosReturn(p, "ok")
  /\ UNCHANGED << invVars, commVars, orders0, orders, orderItems, events, preq,
                  pstarted >>

\* a statement of a cart handler fails: an error answer, what was written
\* before stays (the cart handlers open no transaction)
CartDbError(p) ==
  /\ ppc[p] \in {"addFind", "addSave", "removeDelete", "applyFind", "recalcRead",
                  "recalcWrite"}
  /\ PosFail(p, "Database error")
  /\ UNCHANGED << invVars, commVars, orders0, preq, pstarted >>

\* the cart handlers and CreateOrderFromCart
CartNext ==
  \/ \E p \in Procs, c \in CartIds, product \in 0..3, qty \in CartQuantities,
        emp \in {0, 9} : AddItemToCartRead(p, c, product, qty, emp)
  \/ \E p \in Procs : AddItemToCartFind(p)
  \/ \E p \in Procs : AddItemToCartSave(p)
  \/ \E p \in Procs, c \in CartIds, item \in CartItemIds :
       RemoveItemFromCartRead(p, c, item)
  \/ \E p \in Procs : RemoveItemFromCartDelete(p)
  \/ \E p \in Procs, c \in CartIds, d \in 0..4, ids \in CartItemIdLists :
       ApplyDiscountRead(p, c, d, ids)
  \/ \E p \in Procs : ApplyDiscountFind(p)
  \/ \E p \in Procs : ApplyDiscountItemRead(p)
  \/ \E p \in Procs : ApplyDiscountItemSave(p)
  \/ \E p \in Procs : RecalculateCartTotalsRead(p)
  \/ \E p \in Procs : RecalculateCartTotalsWrite(p)
  \/ \E p \in Procs : CartDbError(p)
  \/ \E p \in Procs, c \in CartIds, doc \in DocumentNumbers :
       CreateOrderFromCartCheck(p, c, doc)
  \/ \E p \in Procs : CreateOrderFromCartRead(p)
  \/ \E p \in Procs : CreateOrderFromCartInsert(p)
  \/ \E p \in Procs : CreateOrderFromCartItems(p)
  \/ \E p \in Procs : CreateOrderPublish(p)
  \/ \E p \in Procs : PosDbError(p)

\* the reload after COMMIT fails: an error answer, nothing is published
PosReloadError(p) ==
  /\ ppc[p] \in {"publish", "voidPublish", "returnPublish"}
  /\ PosFail(p, "Failed to reload order")
  /\ UNCHANGED << invVars, commVars, orders0, preq, pstarted >>

\* the event the handler at its publish step sends
EventTypeAt(pc) ==
  CASE pc = "voidPublish"   -> "order.voided"
    [] pc = "returnPublish" -> "order.returned"
    [] OTHER                -> "order.created"

\* publishOrderEvent fails at its first (n = 0) or second (n = 1)
\* Publish; the handlers drop the returned error and answer success
PosPublishError(p, n) ==
  /\ ppc[p] \in {"publish", "voidPublish", "returnPublish"}
  /\ events' = events \o SubSeq(Published(EventTypeAt(ppc[p]), plocal[p].id), 1, n)
  /\ PosReturn(p, "ok")
  /\ UNCHANGED << invVars, commVars, orders0, orders, orderItems, carts, preq,
                  pstarted >>

PosNext ==
  \/ \E p \in Procs, doc \in DocumentNumbers, c \in Cashiers, items \in ItemLists :
       CreateOrderCheck(p, doc, c, items)
  \/ \E p \in Procs : CreateOrderInsert(p)
  \/ \E p \in Procs : CreateOrderItems(p)
  \/ \E p \in Procs : CreateOrderPublish(p)
  \/ \E p \in Procs, cart \in CartIds, doc \in DocumentNumbers :
       CreateOrderFromCartCheck(p, cart, doc)
  \/ \E p \in Procs : CreateOrderFromCartRead(p)
  \/ \E p \in Procs : CreateOrderFromCartInsert(p)
  \/ \E p \in Procs : CreateOrderFromCartItems(p)
  \/ \E p \in Procs : PosDbError(p)
  \/ \E p \in Procs, id \in 0..MaxOrders, t \in PaymentTypeIds, a \in PaidAmounts :
       ProcessPaymentRead(p, id, t, a)
  \/ \E p \in Procs : ProcessPaymentSave(p)
  \/ \E p \in Procs : ProcessPaymentSaveError(p)

\* ------------------------------------------------------------------------
\* POS: the order engine with discounts, VoidOrder and ReturnOrder
\* ------------------------------------------------------------------------
\* the order_items lists with discounts a CreateOrder request may carry
DiscountItemLists ==
  { << ItemReqD(4, 1, 0, 1), ItemReqD(4, 1, 0, 1) >>,
    << ItemReqD(1, 1, 0, 2) >>,
    << ItemReqD(1, 2, 0, 3) >>,
    << ItemReqD(1, 1, 0, 3) >>,
    << ItemReqD(4, 2, 0, 3) >>,
    << ItemReqD(1, 1, 0, 4) >> }

\* the orders tables a behaviour of the order engine may start from: no
\* order; the order CreateOrder made for products 1 and 4 under INV-1;
\* that order after ProcessPayment; that order paid and voided (VoidOrder
\* loaded it before, and updated it after, the payment)
OrdersInitTables ==
  LET items == << ItemReq(1, 1, 0), ItemReq(4, 1, 0) >>
      order == WithTotals(NewOrder("INV-1", 5, 0), items)
      paid == [order EXCEPT !.paid_status = "PAID", !.payment_type_id = 2]
      void == [paid EXCEPT !.document_type = "VOID", !.notes = "damaged"] IN
  { [orders |-> << >>, items |-> << >>],
    [orders |-> << order >>, items |-> ItemRows(1, items)],
    [orders |-> << paid >>, items |-> ItemRows(1, items)],
    [orders |-> << void >>, items |-> ItemRows(1, items)] }

OrdersInit ==
  /\ \E t \in OrdersInitTables : orders0 = t.orders /\ orderItems = t.items
  /\ orders = orders0
  /\ carts = InitCarts
  /\ events = << >>
  /\ ppc = [p \in Procs |-> "idle"]
  /\ preq = [p \in Procs |-> NoPosReq]
  /\ plocal = [p \in Procs |-> NoPosLocal]
  /\ pres = [p \in Procs |-> "none"]
  /\ pstarted = 0
  \* the inventory tables are empty and its handlers idle
  /\ paging = NoPaging
  /\ stocks0 = << >> /\ stocks = << >> /\ movements = << >>
  /\ ipc = [p \in Procs |-> "idle"]
  /\ ireq = [p \in Procs |-> NoInvReq]
  /\ ilocal = [p \in Procs |-> NoInvLocal]
  /\ ires = [p \in Procs |-> "none"]
  /\ istarted = 0
  \* the commission tables are empty and its handlers idle
  /\ sales = << >> /\ calcs0 = << >> /\ calcs = << >> /\ payments = << >>
  /\ tierSales = NoTierSales
  /\ cdeleted = NoDeleted
  /\ rowLock = [i \in 1..MaxCalcs |-> 0]
  /\ cpc = [p \in Procs |-> "idle"]
  /\ creq = [p \in Procs |-> NoCommReq]
  /\ clocal = [p \in Procs |-> NoCalc]
  /\ cres = [p \in Procs |-> "none"]
  /\ cstarted = 0
  /\ cfault = FALSE
  /\ cache = NoCache /\ bulk = NoBulk

OrdersNext ==
  \/ \E p \in Procs, doc \in DocumentNumbers, c \in Cashiers,
        items \in ItemLists \cup DiscountItemLists :
       CreateOrderCheck(p, doc, c, items)
  \/ \E p \in Procs : CreateOrderInsert(p)
  \/ \E p \in Procs : CreateOrderItems(p)
  \/ \E p \in Procs : CreateOrderPublish(p)
  \/ \E p \in Procs, id \in 0..MaxOrders, t \in PaymentTypeIds, a \in PaidAmounts :
       ProcessPaymentRead(p, id, t, a)
  \/ \E p \in Procs : ProcessPaymentSave(p)
  \/ \E p \in Procs : ProcessPaymentSaveError(p)
  \/ \E p \in Procs, id \in 0..MaxOrders, by \in Cashiers, reason \in VoidReasons :
       VoidOrderRead(p, id, by, reason)
  \/ \E p \in Procs : VoidOrderWrite(p)
  \/ \E p \in Procs : VoidOrderPublish(p)
  \/ \E p \in Procs, id \in 0..MaxOrders, by \in Cashiers, ids \in ItemIdLists :
       ReturnOrderRead(p, id, by, ids)
  \/ \E p \in Procs : ReturnOrderInsert(p)
  \/ \E p \in Procs : ReturnOrderItems(p)
  \/ \E p \in Procs : ReturnOrderPublish(p)
  \/ \E p \in Procs : PosDbError(p)
  \/ \E p \in Procs : PosReloadError(p)
  \/ \E p \in Procs, n \in {0, 1} : PosPublishError(p, n)

\* the orders whose items employee 1 served: none; the order CreateOrder
\* made for products 1 and 4 under INV-1; that order after ProcessPayment;
\* that order after VoidOrder
SalesInitTables ==
  LET items == << ItemReq(1, 1, 1), ItemReq(4, 1, 1) >>
      order == WithTotals(NewOrder("INV-1", 5, 0), items)
      paid == [order EXCEPT !.paid_status = "PAID", !.payment_type_id = 2]
      void == [order EXCEPT !.document_type = "VOID", !.notes = "damaged"] IN
  { [orders |-> << >>, items |-> << >>],
    [orders |-> << order >>, items |-> ItemRows(1, items)],
    [orders |-> << paid >>, items |-> ItemRows(1, items)],
    [orders |-> << void >>, items |-> ItemRows(1, items)] }

\* the POS with orders served by employee 1 and the commission service
\* with no calculation yet
SalesInit ==
  /\ \E t \in SalesInitTables : orders0 = t.orders /\ orderItems = t.items
  /\ orders = orders0
  /\ carts = InitCarts
  /\ events = << >>
  /\ ppc = [p \in Procs |-> "idle"]
  /\ preq = [p \in Procs |-> NoPosReq]
  /\ plocal = [p \in Procs |-> NoPosLocal]
  /\ pres = [p \in Procs |-> "none"]
  /\ pstarted = 0
  \* the inventory tables are empty and its handlers idle
  /\ paging = NoPaging
  /\ stocks0 = << >> /\ stocks = << >> /\ movements = << >>
  /\ ipc = [p \in Procs |-> "idle"]
  /\ ireq = [p \in Procs |-> NoInvReq]
  /\ ilocal = [p \in Procs |-> NoInvLocal]
  /\ ires = [p \in Procs |-> "none"]
  /\ istarted = 0
  \* no calculation yet and the commission handlers idle
  /\ sales = << >> /\ calcs0 = << >> /\ calcs = << >> /\ payments = << >>
  /\ tierSales = NoTierSales
  /\ cdeleted = NoDeleted
  /\ rowLock = [i \in 1..MaxCalcs |-> 0]
  /\ cpc = [p \in Procs |-> "idle"]
  /\ creq = [p \in Procs |-> NoCommReq]
  /\ clocal = [p \in Procs |-> NoCalc]
  /\ cres = [p \in Procs |-> "none"]
  /\ cstarted = 0
  /\ cfault = FALSE
  /\ cache = NoCache /\ bulk = NoBulk

\* payment, void and return on those orders, and commission calculations
\* for employee 1
SalesNext ==
  \/ \E p \in Procs, id \in 0..MaxOrders, t \in PaymentTypeIds, a \in PaidAmounts :
       ProcessPaymentRead(p, id, t, a)
  \/ \E p \in Procs : ProcessPaymentSave(p)
  \/ \E p \in Procs : ProcessPaymentSaveError(p)
  \/ \E p \in Procs, id \in 0..MaxOrders, by \in Cashiers, reason \in VoidReasons :
       VoidOrderRead(p, id, by, reason)
  \/ \E p \in Procs : VoidOrderWrite(p)
  \/ \E p \in Procs : VoidOrderPublish(p)
  \/ \E p \in Procs, id \in 0..MaxOrders, by \in Cashiers, ids \in ItemIdLists :
       ReturnOrderRead(p, id, by, ids)
  \/ \E p \in Procs : ReturnOrderInsert(p)
  \/ \E p \in Procs : ReturnOrderItems(p)
  \/ \E p \in Procs : ReturnOrderPublish(p)
  \/ \E p \in Procs : PosDbError(p)
  \/ \E p \in Procs : PosReloadError(p)
  \/ \E p \in Procs, n \in {0, 1} : PosPublishError(p, n)
  \/ \E p \in Procs, u \in Users : CalculateCommission(p, 1, FALSE, u)

\* the payment, void and return handlers on the orders of OrdersInit
SettleNext ==
  \/ \E p \in Procs, id \in 0..MaxOrders, t \in PaymentTypeIds, a \in PaidAmounts :
       ProcessPaymentRead(p, id, t, a)
  \/ \E p \in Procs : ProcessPaymentSave(p)
  \/ \E p \in Procs : ProcessPaymentSaveError(p)
  \/ \E p \in Procs, id \in 0..MaxOrders, by \in Cashiers, reason \in VoidReasons :
       VoidOrderRead(p, id, by, reason)
  \/ \E p \in Procs : VoidOrderWrite(p)
  \/ \E p \in Procs : VoidOrderPublish(p)
  \/ \E p \in Procs, id \in 0..MaxOrders, by \in Cashiers, ids \in ItemIdLists :
       ReturnOrderRead(p, id, by, ids)
  \/ \E p \in Procs : ReturnOrderInsert(p)
  \/ \E p \in Procs : ReturnOrderItems(p)
  \/ \E p \in Procs : ReturnOrderPublish(p)
  \/ \E p \in Procs : PosDbError(p)
  \/ \E p \in Procs : PosReloadError(p)
  \/ \E p \in Procs, n \in {0, 1} : PosPublishError(p, n)

\* ------------------------------------------------------------------------
\* POS: properties
\* ------------------------------------------------------------------------
\* C4: for each order, under any interleaving of concurrent ProcessPayment
\* calls at most one call succeeds and marks the order PAID; every other
\* call is rejected as already paid.
C4_PaymentExactlyOnce ==
  ( /\ pstarted = 2
    /\ \A p \in Procs :
         /\ ppc[p] = "idle"
         /\ preq[p].op = "ProcessPayment" /\ preq[p].order_id = 1 )
  => Cardinality({p \in Procs : pres[p] = "ok"}) <= 1

CommittedOrders == {i \in 1..Len(orders) : orders[i].tx = 0}

\* C10: at most one OrderDocument exists per document_number after any
\* interleaving of CreateOrder and CreateOrderFromCart calls, and a call
\* that is rejected leaves no OrderDocument or OrderItem rows of its own.
C10_UniqueDocumentNumber ==
  /\ \A i, j \in CommittedOrders :
       orders[i].document_number = orders[j].document_number => i = j
  /\ \A p \in Procs : ppc[p] \in {"idle", "publish", "save"}
                        => \A i \in 1..Len(orders) : orders[i].tx # p
  /\ \A k \in 1..Len(orderItems) : orderItems[k].document_id \in CommittedOrders
  /\ (\A p \in Procs : ppc[p] = "idle")
       => /\ Cardinality(CommittedOrders) * 2 = (Len(orders0) * 2) + Len(events)
          /\ \A i \in CommittedOrders :
               \E k \in 1..Len(orderItems) : orderItems[k].document_id = i

\* two calls named the same document number; one created the order, the
\* other was rejected by the unique index
C10_Witness ==
  \E p, q \in Procs :
    /\ ppc[p] = "idle" /\ ppc[q] = "idle"
    /\ preq[p].document_number = preq[q].document_number
    /\ preq[p].op = "CreateOrder" /\ pres[p] = "ok"
    /\ preq[q].op = "CreateOrderFromCart" /\ pres[q] = "Failed to create order"

\* the order_items rows of a document
LinesOf(i) ==
  RowsOf({k \in 1..Len(orderItems) : orderItems[k].document_id = i})

\* C11: every OrderDocument written by CreateOrder, CreateOrderFromCart or
\* ReturnOrder satisfies total_amount = subtotal - discount_amount +
\* tax_amount, and the sum of its items' line_total equals subtotal -
\* discount_amount.
C11_OrderTotalsConsistent ==
  \A i \in CommittedOrders :
    /\ orders[i].total_amount
         = (orders[i].subtotal - orders[i].discount_amount) + orders[i].tax_amount
    /\ SumField(LinesOf(i), "line_total")
         = orders[i].subtotal - orders[i].discount_amount

\* C12: for every discount type and value, the discount_amount written on
\* a CartItem or on an OrderItem of a sale never exceeds unit_price x
\* quantity, so line_total is never negative.
C12_DiscountCapped ==
  /\ \A k \in 1..Len(orderItems) :
       orders[orderItems[k].document_id].document_type # "RETURN"
         => /\ orderItems[k].discount_amount
                 <= orderItems[k].unit_price * orderItems[k].quantity
            /\ orderItems[k].line_total >= 0
  /\ \A c \in 1..Len(carts) : \A k \in 1..Len(carts[c].items) :
       /\ carts[c].items[k].discount_amount
            <= carts[c].items[k].unit_price * carts[c].items[k].quantity
       /\ carts[c].items[k].line_total >= 0

\* the handler p returns in this step
PosReturns(p) == ppc[p] # "idle" /\ ppc'[p] = "idle"

\* the event of each operation
EventOf(op) ==
  CASE op \in {"CreateOrder", "CreateOrderFromCart"} -> "order.created"
    [] op = "ProcessPayment" -> "payment.processed"
    [] op = "VoidOrder" -> "order.voided"
    [] OTHER -> "order.returned"

\* the step appends one message of the type on pos:events:<type> and one
\* on pos:events:all, both for the same order
PublishedOnce(type) ==
  /\ Len(events') = Len(events) + 2
  /\ SubSeq(events', 1, Len(events)) = events
  /\ events'[Len(events) + 1].channel = "pos:events:" \o type
  /\ events'[Len(events) + 2].channel = "pos:events:all"
  /\ events'[Len(events) + 1].event_type = type
  /\ events'[Len(events) + 2].event_type = type
  /\ events'[Len(events) + 1].order_id = events'[Len(events) + 2].order_id

C14Step ==
  /\ \A p \in Procs :
       PosReturns(p) =>
         IF pres'[p] = "ok" THEN PublishedOnce(EventOf(preq[p].op))
                           ELSE events' = events
  /\ (\A p \in Procs : ~PosReturns(p)) => events' = events

\* C14: every successful CreateOrder, CreateOrderFromCart, ProcessPayment,
\* VoidOrder and ReturnOrder publishes its event exactly once on
\* pos:events:<type> and exactly once on pos:events:all, and an operation
\* that failed publishes nothing.
C14_EventPerSuccess == [][C14Step]_vars

\* C15: for any single order the events on pos:events:all appear in the
\* order in which the order's transitions were committed.  The creation is
\* the first committed transition of an order, so no event of an order may
\* precede its order.created.
C15_EventsInCommitOrder ==
  \A i, j \in 1..Len(events) :
    ( /\ events[i].channel = "pos:events:all"
      /\ events[j].channel = "pos:events:all"
      /\ events[i].order_id = events[j].order_id
      /\ events[j].event_type = "order.created"
      /\ events[i].event_type # "order.created" )
    => j < i

\* the handler p starts a call of op in this step
PosCalls(p, op) ==
  /\ ppc[p] = "idle"
  /\ pstarted' = pstarted + 1
  /\ preq'[p].op = op
  /\ (preq'[p] # preq[p] \/ pres'[p] # pres[p] \/ ppc'[p] # ppc[p])

\* the call p starts in this step ends in it with a rejection, and no
\* table and no channel is written
PosRejected(p) ==
  /\ ppc'[p] = "idle"
  /\ pres'[p] \notin {"ok", "none"}
  /\ orders' = orders
  /\ orderItems' = orderItems
  /\ events' = events

C19Step ==
  \A p \in Procs :
    ( /\ PosCalls(p, "VoidOrder")
      /\ preq'[p].cashier_id # 0 /\ preq'[p].reason # ""
      /\ preq'[p].order_id \in CommittedOrders
      /\ \/ orders[preq'[p].order_id].paid_status = "PAID"
         \/ orders[preq'[p].order_id].document_type = "VOID" )
    => /\ PosRejected(p)
       /\ pres'[p] \in {"Order is already voided",
                         "Cannot void a paid order. Use return instead."}

\* C19: VoidOrder on an order whose paid_status is PAID, or whose
\* document_type is already VOID, is rejected: the order's document_type,
\* notes and paid_status are unchanged and no order.voided event is
\* published.
C19_VoidRejected == [][C19Step]_vars

\* a VoidOrder was rejected for a paid order and for a voided order
C19_Witness ==
  \E p \in Procs :
    /\ ppc[p] = "idle" /\ preq[p].op = "VoidOrder"
    /\ orders = orders0 /\ events = << >>
    /\ \/ /\ pres[p] = "Cannot void a paid order. Use return instead."
          /\ orders[preq[p].order_id].paid_status = "PAID"
          /\ orders[preq[p].order_id].document_type = "SALE"
       \/ /\ pres[p] = "Order is already voided"
          /\ orders[preq[p].order_id].document_type = "VOID"
          /\ pstarted = 2

C20Step ==
  \A p \in Procs :
    ( /\ PosCalls(p, "ReturnOrder")
      /\ preq'[p].cashier_id # 0 /\ Len(preq'[p].item_ids) > 0
      /\ preq'[p].order_id \in CommittedOrders
      /\ \/ orders[preq'[p].order_id].paid_status # "PAID"
         \/ orders[preq'[p].order_id].document_type = "VOID"
         \/ \E n \in 1..Len(preq'[p].item_ids) :
              ~( /\ preq'[p].item_ids[n] \in 1..Len(orderItems)
                 /\ orderItems[preq'[p].item_ids[n]].document_id
                      = preq'[p].order_id ) )
    => PosRejected(p)

\* C20: ReturnOrder is rejected before any insert (no return
\* OrderDocument, no return OrderItem, original order unchanged) whenever
\* the original order is not PAID, is VOID, or at least one nominated
\* item_id does not belong to the original order.
C20_ReturnRejected == [][C20Step]_vars

\* a ReturnOrder naming an item of the paid order and an item that is not
\* of it was rejected, and nothing was inserted
C20_Witness ==
  \E p \in Procs :
    /\ ppc[p] = "idle" /\ preq[p].op = "ReturnOrder"
    /\ preq[p].item_ids = << 2, 3 >>
    /\ pres[p] = "Some item IDs are invalid or don't belong to this order"
    /\ orders[preq[p].order_id].paid_status = "PAID"
    /\ orders[preq[p].order_id].document_type = "SALE"
    /\ orders = orders0 /\ Len(orderItems) = 2

\* the CreateOrder call of p ends in this step on a failed validation or a
\* failed write (before its COMMIT)
CreateOrderFails(p) ==
  /\ ppc'[p] = "idle"
  /\ \/ PosCalls(p, "CreateOrder")
     \/ preq[p].op = "CreateOrder" /\ ppc[p] \in {"insert", "items"}

\* the transaction of the CreateOrder call of p commits in this step
CreateOrderCommits(p) ==
  preq[p].op = "CreateOrder" /\ ppc[p] = "items" /\ ppc'[p] = "publish"

\* C27: CreateOrder is all-or-nothing.  When the call ends on a failed
\* item validation or a failed write, it answers a failure, no
\* OrderDocument of the call is persisted (no row becomes committed, none
\* stays pending), no OrderItem is added and nothing is published; when
\* its transaction commits, the document is PENDING with paid_amount 0 and
\* the items table gains exactly one OrderItem per requested item, in
\* order, for that document
C27Step ==
  \A p \in Procs :
    /\ CreateOrderFails(p) =>
         /\ pres'[p] # "ok"
         /\ \A i \in 1..Len(orders') :
              /\ orders'[i].tx # p
              /\ orders'[i].tx = 0 => (i <= Len(orders) /\ orders[i].tx = 0)
         /\ orderItems' = orderItems
         /\ events' = events
    /\ CreateOrderCommits(p) =>
         LET id == plocal[p].id
             added == SubSeq(orderItems', Len(orderItems) + 1, Len(orderItems')) IN
         /\ orders'[id].tx = 0
         /\ orders'[id].document_number = preq[p].document_number
         /\ orders'[id].paid_status = "PENDING"
         /\ orders'[id].paid_amount = 0
         /\ SubSeq(orderItems', 1, Len(orderItems)) = orderItems
         /\ Len(added) = Len(preq[p].items)
         /\ \A i \in 1..Len(added) :
              /\ added[i].document_id = id
              /\ added[i].product_id = preq[p].items[i].product_id
              /\ added[i].quantity = preq[p].items[i].quantity

C27_CreateOrderAllOrNothing == [][C27Step]_vars

\* a CreateOrder whose second item is inactive has answered: its document
\* was inserted and rolled back, and the items table is as it was
C27_Witness ==
  \E p \in Procs :
    /\ ppc[p] = "idle" /\ preq[p].op = "CreateOrder"
    /\ Len(preq[p].items) = 2
    /\ pres[p] = "product not found or inactive"
    /\ \E i \in 1..Len(orders) :
         orders[i].tx = -1 /\ orders[i].document_number = preq[p].document_number
    /\ \A i \in 1..Len(orderItems) : orderItems[i].document_id \in 1..Len(orders0)

\* the cash payment of p is saved and answered with success in this step
CashPaymentSucceeds(p) ==
  /\ preq[p].op = "ProcessPayment" /\ preq[p].payment_type_id = 1
  /\ ppc[p] = "save" /\ ppc'[p] = "idle" /\ pres'[p] = "ok"

\* C28: a ProcessPayment with payment_type_id = 1 succeeds only with
\* paid_amount >= total_amount, and the order it stores is PAID with the
\* given payment type, paid_amount as tendered and change_amount =
\* paid_amount - total_amount; with paid_amount < total_amount the call is
\* rejected and the order is unchanged
C28Step ==
  \A p \in Procs :
    /\ CashPaymentSucceeds(p) =>
         LET id == preq[p].order_id IN
         /\ preq[p].paid_amount >= orders[id].total_amount
         /\ orders'[id].paid_status = "PAID"
         /\ orders'[id].payment_type_id = 1
         /\ orders'[id].paid_amount = preq[p].paid_amount
         /\ orders'[id].change_amount = preq[p].paid_amount - orders[id].total_amount
    /\ ( /\ PosCalls(p, "ProcessPayment")
         /\ preq'[p].payment_type_id = 1
         /\ OrderFound(preq'[p].order_id)
         /\ preq'[p].paid_amount < orders[preq'[p].order_id].total_amount )
       => (PosRejected(p) /\ orders' = orders)

C28_CashPaymentStored == [][C28Step]_vars

\* in this step handler p commits its return
ReturnCommits(p) == ppc[p] = "returnItems" /\ ppc'[p] = "returnPublish"

\* the order_items rows k and j hold the same product and quantity
SameLine(k, j) ==
  /\ orderItems[k].product_id = orderItems[j].product_id
  /\ orderItems[k].quantity = orderItems[j].quantity

C21Step ==
  \A p \in Procs :
    ReturnCommits(p) =>
      LET o == preq[p].order_id
          d == plocal[p].id
          returned == ItemsToReturn(preq[p].item_ids, o)
          added == (Len(orderItems) + 1)..Len(orderItems') IN
      /\ orders'[o].paid_status =
           IF returned = ItemsOfOrder(o) THEN "REFUNDED" ELSE "PAID"
      /\ orders'[d].document_number = "RET-" \o orders[o].document_number
      /\ orders'[d].document_type = "RETURN" /\ orders'[d].tx = 0
      /\ Cardinality(added) = Cardinality(returned)
      /\ \A n \in added : orderItems'[n].document_id = d
      /\ \A k \in returned :
           Cardinality({n \in added :
                          /\ orderItems'[n].product_id = orderItems[k].product_id
                          /\ orderItems'[n].quantity = -orderItems[k].quantity})
             = Cardinality({j \in returned : SameLine(k, j)})

\* C21: a ReturnOrder that commits leaves the original order REFUNDED if
\* and only if it returned all of the order's items and PAID when it
\* returned a strict subset, and its document RET-<original> holds one
\* item with quantity = -original quantity per returned item.
C21_RefundedIffAllReturned == [][C21Step]_vars

C21_Witness ==
  \E p \in Procs :
    /\ ppc[p] = "idle" /\ pres[p] = "ok" /\ preq[p].op = "ReturnOrder"
    /\ ItemsToReturn(preq[p].item_ids, preq[p].order_id)
         # ItemsOfOrder(preq[p].order_id)
    /\ orders[preq[p].order_id].paid_status = "PAID"
    /\ \E d \in 1..Len(orders) :
         /\ orders[d].document_type = "RETURN" /\ orders[d].tx = 0
         /\ \E n \in 1..Len(orderItems) :
              orderItems[n].document_id = d /\ orderItems[n].quantity < 0

\* the documents ReturnOrder made for order o: those numbered
\* RET-<document_number of o>
ReturnDocsOf(o) ==
  { d \in 1..Len(orders) :
      orders[d].document_number = "RET-" \o orders[o].document_number }

\* the order_items rows of document d for a product
ProductLinesOf(d, product) ==
  { k \in 1..Len(orderItems) :
      orderItems[k].document_id = d /\ orderItems[k].product_id = product }

\* the sum of the quantities of a set of order_items rows
RECURSIVE SumQuantity(_)
SumQuantity(ks) ==
  IF ks = {} THEN 0
  ELSE LET k == CHOOSE x \in ks : TRUE IN
       orderItems[k].quantity + SumQuantity(ks \ {k})

\* the quantity of a product returned from order o: the mirror rows carry
\* the negated quantities
ReturnedQuantity(o, product) ==
  -SumQuantity(UNION { ProductLinesOf(d, product) : d \in ReturnDocsOf(o) })

\* C38: whatever ReturnOrder, ProcessPayment and VoidOrder calls ran,
\* for every item of every original order the quantity returned of it
\* (summed over the return documents of the order) never exceeds the
\* quantity the order sold of it: no item is refunded more than once.
\* (An original item is a row with a positive quantity; a mirror row
\* carries a negative one.)
C38_NoItemRefundedTwice ==
  \A o \in 1..Len(orders) :
    \A k \in ItemsOfOrder(o) :
      orderItems[k].quantity > 0 =>
        ReturnedQuantity(o, orderItems[k].product_id)
          <= SumQuantity(ProductLinesOf(o, orderItems[k].product_id))

\* an item of order o was returned and a later ReturnOrder on o, for its
\* other item, failed on the return document's number
C38_Witness ==
  \E p \in Procs, o \in 1..Len(orders) :
    /\ ppc[p] = "idle" /\ preq[p].op = "ReturnOrder" /\ preq[p].order_id = o
    /\ pres[p] = "Failed to create return document"
    /\ orders[o].paid_status = "PAID"
    /\ \E k \in ItemsOfOrder(o) :
         /\ ReturnedQuantity(o, orderItems[k].product_id) = orderItems[k].quantity
         /\ orderItems[k].quantity > 0
    /\ \E k \in ItemsOfOrder(o) :
         ReturnedQuantity(o, orderItems[k].product_id) = 0

\* every item of the cart is priced: line_total = unit_price x quantity -
\* discount_amount
ItemsPriced(cart) ==
  \A k \in 1..Len(cart.items) :
    ~cart.items[k].deleted =>
      cart.items[k].line_total
        = (cart.items[k].unit_price * cart.items[k].quantity)
            - cart.items[k].discount_amount

RECURSIVE SumUndiscounted(_)
SumUndiscounted(items) ==
  IF items = << >> THEN 0
  ELSE (items[1].unit_price * items[1].quantity) + SumUndiscounted(Tail(items))

\* the items are priced and the totals of the cart follow from them
CartPriced(cart) ==
  /\ ItemsPriced(cart)
  /\ cart.subtotal = SumUndiscounted(LiveItems(cart))
  /\ cart.discount_amount = SumField(LiveItems(cart), "discount_amount")
  /\ cart.tax_amount = Tax(cart.subtotal - cart.discount_amount)
  /\ cart.total_amount = (cart.subtotal - cart.discount_amount) + cart.tax_amount

\* C29: the pricing of an OPEN cart is kept by AddItemToCart,
\* RemoveItemFromCart and ApplyDiscount run one after the other (no other
\* handler is running and what the handler read is still stored): on a
\* priced cart the row AddItemToCart saves is priced (also when the line
\* already carries a discount); the rows RemoveItemFromCart and
\* ApplyDiscount leave are priced; and the totals recalculateCartTotals
\* writes over priced items are subtotal = sum of unit_price x quantity,
\* discount = sum of the item discounts, tax = 10% of (subtotal -
\* discount), total = subtotal - discount + tax
C29Step ==
  \A p \in Procs :
    LET c == preq[p].cart_id
        k == plocal[p].id IN
    ( /\ \A r \in Procs \ {p} : ppc[r] = "idle"
      /\ c \in 1..Len(carts) /\ carts[c].status = 0 ) =>
      /\ ( /\ ppc[p] = "addSave" /\ ppc'[p] = "recalcRead"
           /\ k # 0 => plocal[p].rows[1] = carts[c].items[k]
           /\ CartPriced(carts[c]) )
           => ItemsPriced(carts'[c])
      /\ (ppc[p] = "removeDelete" /\ ItemsPriced(carts[c]))
           => ItemsPriced(carts'[c])
      /\ ( /\ ppc[p] = "applySave" /\ ppc'[p] = "applyItem"
           /\ plocal[p].rows[1] = carts[c].items[k]
           /\ ItemsPriced(carts[c]) )
           => ItemsPriced(carts'[c])
      /\ ( /\ ppc[p] = "recalcWrite" /\ ppc'[p] = "idle" /\ pres'[p] = "ok"
           /\ preq[p].op \in {"AddItemToCart", "RemoveItemFromCart", "ApplyDiscount"}
           /\ plocal[p].cart = CartTotals(NoCart, LiveItems(carts[c]))
           /\ ItemsPriced(carts[c]) )
           => CartPriced(carts'[c])

C29_CartPricingKept == [][C29Step]_vars

\* the transaction of the CreateOrderFromCart call of p commits in this step
CreateOrderFromCartCommits(p) ==
  preq[p].op = "CreateOrderFromCart" /\ ppc[p] = "items" /\ ppc'[p] = "publish"

\* C37: a cart is converted into at most one order: whenever a
\* CreateOrderFromCart call commits its OrderDocument, no earlier call has
\* committed one for the same cart (the cart is still OPEN, status 0; the
\* commit sets it to 1 and nothing sets it back)
C37Step ==
  \A p \in Procs :
    CreateOrderFromCartCommits(p) => carts[preq[p].cart_id].status = 0

C37_CartConvertedOnce == [][C37Step]_vars

\* the CreateOrder request for the products, quantities and discounts of
\* the given order items
DirectRequest(rows) ==
  [i \in 1..Len(rows) |->
     ItemReqD(rows[i].product_id, rows[i].quantity, rows[i].serving_employee_id,
              rows[i].discount_id)]

\* C30: the order CreateOrderFromCart commits for a cart built with
\* AddItemToCart and ApplyDiscount has, item by item, the discount_amount
\* and line_total, and as a document the subtotal, discount, tax and total
\* that CreateOrder gives a request of the same products, quantities and
\* discounts (a request CreateOrder accepts), for every discount type; the
\* cart handlers have all returned with success, the totals of the cart are those
\* recalculateCartTotals gives its items, and the cart is as it was read
C30Step ==
  \A p \in Procs :
    ( /\ CreateOrderFromCartCommits(p)
      /\ \A r \in Procs \ {p} : ppc[r] = "idle"
      /\ \A r \in Procs : pres[r] \in {"ok", "none"}
      /\ plocal[p].cart = [carts[preq[p].cart_id] EXCEPT
                             !.items = LiveItems(carts[preq[p].cart_id])]
      /\ carts[preq[p].cart_id]
           = CartTotals(carts[preq[p].cart_id], LiveItems(carts[preq[p].cart_id])) ) =>
      LET id == plocal[p].id
          added == SubSeq(orderItems', Len(orderItems) + 1, Len(orderItems'))
          request == DirectRequest(added)
          direct == WithTotals(NewOrder(preq[p].document_number,
                                        orders'[id].cashier_id, 0), request) IN
      FirstItemError(request) = "" =>
        /\ \A i \in 1..Len(added) :
             /\ added[i].discount_amount = OrderItemRow(id, request[i]).discount_amount
             /\ added[i].line_total = OrderItemRow(id, request[i]).line_total
        /\ orders'[id].subtotal = direct.subtotal
        /\ orders'[id].discount_amount = direct.discount_amount
        /\ orders'[id].tax_amount = direct.tax_amount
        /\ orders'[id].total_amount = direct.total_amount

C30_CartPathPricesAsDirectPath == [][C30Step]_vars

\* the order is voided and paid at once
VoidAndPaid(order) == order.document_type = "VOID" /\ order.paid_status = "PAID"

\* C36: starting without such an order, no interleaving of CreateOrder,
\* ProcessPayment, VoidOrder and ReturnOrder reaches a state in which an
\* order has document_type VOID together with paid_status PAID
C36_NoVoidedOrderPaid ==
  (\A i \in 1..Len(orders0) : ~VoidAndPaid(orders0[i])) =>
    \A i \in 1..Len(orders) : ~VoidAndPaid(orders[i])

C13Step ==
  \A c \in 1..Len(carts) :
    /\ (carts[c].status = 0 /\ carts'[c].status = 1)
         => \E p \in Procs :
              /\ preq[p].op = "CreateOrderFromCart" /\ preq[p].cart_id = c
              /\ ppc[p] = "items" /\ ppc'[p] = "publish"
    /\ carts[c].status = 1 => carts'[c] = carts[c]

\* C13: a cart's status becomes CHECKED_OUT only through a successful
\* CreateOrderFromCart, and once it is CHECKED_OUT its items and totals
\* never change, also when AddItemToCart, RemoveItemFromCart or
\* ApplyDiscount run concurrently with the CreateOrderFromCart that checks
\* it out.
C13_CheckedOutCartFrozen == [][C13Step]_vars

\* ------------------------------------------------------------------------
\* Specifications
\* ------------------------------------------------------------------------
SpecInventory == InvInit /\ [][InvNext]_vars

SpecRoundTrip == RoundTripInit /\ [][RoundTripNext]_vars

SpecCommission == CommInit /\ [][CommNext]_vars

SpecPaging == PagingInit /\ [][PagingNext]_vars

SpecLedger == InvInit /\ [][LedgerNext]_vars

SpecBulk == BulkInit /\ [][BulkNext]_vars

SpecCache == CommInit /\ [][CacheNext]_vars

SpecCalculate == CalculateInit /\ [][CalculateNext]_vars

SpecSales == SalesInit /\ [][SalesNext]_vars

SpecPos == PosInit /\ [][PosNext]_vars

SpecOrders == OrdersInit /\ [][OrdersNext]_vars

SpecSettle == OrdersInit /\ [][SettleNext]_vars

SpecCart == PosInit /\ [][CartNext]_vars

====
